---- MODULE Spec2Model ----
(***************************************************************************)
(* Flatex archive PDF downloader: the filename resolver (parse_utils.py),  *)
(* the download fetcher (download.py) and the row orchestrator             *)
(* (flatex_pdf_downloader.py main).                                        *)
(*                                                                         *)
(* Python strings are modelled as sequences of one-character strings, so   *)
(* that sanitising, percent-decoding and suffix tests are computed and not *)
(* assumed.  A URL is the record urlparse/parse_qs give for it: hostname,  *)
(* path, decoded query lists and the SHA-1 digest prefix of its text.      *)
(***************************************************************************)
EXTENDS Integers, Sequences, FiniteSets, TLC

(* ------------------------------------------------------------------ *)
(* Characters and small string helpers                                 *)
(* ------------------------------------------------------------------ *)

LowerLetters ==
    <<"a","b","c","d","e","f","g","h","i","j","k","l","m",
      "n","o","p","q","r","s","t","u","v","w","x","y","z">>

UpperLetters ==
    <<"A","B","C","D","E","F","G","H","I","J","K","L","M",
      "N","O","P","Q","R","S","T","U","V","W","X","Y","Z">>

DigitChars == <<"0","1","2","3","4","5","6","7","8","9">>

Range(s) == { s[i] : i \in 1..Len(s) }

\* the class [A-Za-z0-9._-] of sanitize_filename's regular expression
SafeChars ==
    Range(LowerLetters) \cup Range(UpperLetters) \cup Range(DigitChars)
        \cup {".", "_", "-"}

\* str.strip() without arguments removes white space
WhiteChars == {" ", "\t"}

\* str.lower() on one character
LowerChar(c) ==
    IF c \in Range(UpperLetters)
    THEN LowerLetters[CHOOSE i \in 1..Len(UpperLetters) : UpperLetters[i] = c]
    ELSE c

Lower(s) == [i \in 1..Len(s) |-> LowerChar(s[i])]

\* s.endswith(t)
EndsWith(s, t) ==
    /\ Len(s) >= Len(t)
    /\ SubSeq(s, Len(s) - Len(t) + 1, Len(s)) = t

\* s.startswith(t)
StartsWith(s, t) ==
    /\ Len(s) >= Len(t)
    /\ SubSeq(s, 1, Len(t)) = t

\* s[p:].startswith(t), p 1-based
StartsWithAt(s, p, t) ==
    /\ p >= 1
    /\ p + Len(t) - 1 <= Len(s)
    /\ SubSeq(s, p, p + Len(t) - 1) = t

\* t in s
Contains(s, t) == \E p \in 1..(Len(s) + 1) : StartsWithAt(s, p, t)

\* s[-1]
Last(seq) == seq[Len(seq)]

RECURSIVE LStrip(_, _)
LStrip(s, cs) ==
    IF s # <<>> /\ Head(s) \in cs THEN LStrip(Tail(s), cs) ELSE s

RECURSIVE RStrip(_, _)
RStrip(s, cs) ==
    IF s # <<>> /\ s[Len(s)] \in cs
    THEN RStrip(SubSeq(s, 1, Len(s) - 1), cs)
    ELSE s

\* s.strip(cs)
Strip(s, cs) == RStrip(LStrip(s, cs), cs)

\* index of the last occurrence of character c in s, 0 when absent (str.rfind + 1)
RFind(s, c) ==
    IF \E i \in 1..Len(s) : s[i] = c
    THEN CHOOSE i \in 1..Len(s) :
            /\ s[i] = c
            /\ \A j \in (i + 1)..Len(s) : s[j] # c
    ELSE 0

\* decimal text of a natural number, as an f-string formats it
RECURSIVE IntToStr(_)
IntToStr(n) ==
    IF n < 10 THEN <<DigitChars[n + 1]>>
    ELSE IntToStr(n \div 10) \o <<DigitChars[(n % 10) + 1]>>

PdfExt == <<".", "p", "d", "f">>

(* ------------------------------------------------------------------ *)
(* pathlib: PurePath.name / .stem / .suffix                            *)
(* ------------------------------------------------------------------ *)

\* Path(p).name: the last path component, trailing slashes ignored
PathName(p) ==
    LET q == RStrip(p, {"/"})
        k == RFind(q, "/")
    IN  SubSeq(q, k + 1, Len(q))

\* Path(name).suffix for a single component: from the last dot on, unless
\* that dot is the first or the last character
PathSuffix(name) ==
    LET k == RFind(name, ".")
    IN  IF 1 < k /\ k < Len(name) THEN SubSeq(name, k, Len(name)) ELSE <<>>

\* Path(name).stem
PathStem(name) ==
    LET k == RFind(name, ".")
    IN  IF 1 < k /\ k < Len(name) THEN SubSeq(name, 1, k - 1) ELSE name

(* ------------------------------------------------------------------ *)
(* urllib.parse.unquote on the escapes the archive's links use         *)
(* ------------------------------------------------------------------ *)

PercentEscapes ==
    { <<<<"%","2","0">>, " ">>,
      <<<<"%","2","8">>, "(">>,
      <<<<"%","2","9">>, ")">>,
      <<<<"%","2","F">>, "/">> }

RECURSIVE Unquote(_)
Unquote(s) ==
    IF s = <<>> THEN <<>>
    ELSE IF \E e \in PercentEscapes : StartsWith(s, e[1])
         THEN LET e == CHOOSE x \in PercentEscapes : StartsWith(s, x[1])
              IN  <<e[2]>> \o Unquote(SubSeq(s, 4, Len(s)))
         ELSE <<Head(s)>> \o Unquote(Tail(s))

(* ------------------------------------------------------------------ *)
(* parse_utils.sanitize_filename                                       *)
(* ------------------------------------------------------------------ *)

\* re.sub(r"[^A-Za-z0-9._-]+", "_", s): every maximal run of characters
\* outside the class becomes one underscore
RECURSIVE SubUnsafe(_, _)
SubUnsafe(s, inRun) ==
    IF s = <<>> THEN <<>>
    ELSE IF Head(s) \in SafeChars
         THEN <<Head(s)>> \o SubUnsafe(Tail(s), FALSE)
         ELSE (IF inRun THEN <<>> ELSE <<"_">>) \o SubUnsafe(Tail(s), TRUE)

DocumentPdf == <<"d","o","c","u","m","e","n","t",".","p","d","f">>

DocumentStem == <<"d","o","c","u","m","e","n","t">>

\* the default extension forgotten
sanitize_filename_no_default_ext(name) ==
    LET safe == Strip(SubUnsafe(Strip(name, WhiteChars), FALSE), {".", "_"})
        stem == RStrip(PathStem(safe), {".", "_"})
        ext  == PathSuffix(safe)
    IN  IF safe = <<>> THEN DocumentPdf
        ELSE (IF stem = <<>> THEN DocumentStem ELSE stem) \o ext

sanitize_filename(name) ==
    LET safe == Strip(SubUnsafe(Strip(name, WhiteChars), FALSE), {".", "_"})
        stem == RStrip(PathStem(safe), {".", "_"})
        ext  == PathSuffix(safe)
    IN  IF safe = <<>> THEN DocumentPdf
        ELSE (IF stem = <<>> THEN DocumentStem ELSE stem)
                \o (IF ext = <<>> THEN PdfExt ELSE ext)

\* if not candidate.lower().endswith(".pdf"): candidate += ".pdf"
ForcePdf(candidate) ==
    IF EndsWith(Lower(candidate), PdfExt) THEN candidate ELSE candidate \o PdfExt

\* flatex_pdf_downloader.sanitize_filename: the script's own, shorter variant
cli_sanitize_filename(name) ==
    LET safe == Strip(SubUnsafe(Strip(name, WhiteChars), FALSE), {".", "_"})
    IN  IF safe = <<>> THEN DocumentPdf ELSE safe

\* the two programs: the modular package ("lib": src/download.py with
\* src/parse_utils.py) and the stand-alone script ("cli")
Variants == {"lib", "cli"}

Sanitize(v, name) ==
    IF v = "cli" THEN cli_sanitize_filename(name) ELSE sanitize_filename(name)

(* ------------------------------------------------------------------ *)
(* FILENAME_RE = filename\*?=(?:UTF-8''|")?([^";]+), re.IGNORECASE     *)
(* ------------------------------------------------------------------ *)

FilenameWord == <<"f","i","l","e","n","a","m","e">>

Utf8Prefix == <<"u","t","f","-","8","'","'">>

\* the longest run of characters other than the double quote and ; from p on
RECURSIVE ValueRun(_, _)
ValueRun(h, p) ==
    IF p > Len(h) \/ h[p] \in {"\"", ";"} THEN <<>>
    ELSE <<h[p]>> \o ValueRun(h, p + 1)

\* the group captured by a match that starts at s, <<>> when none starts there
\* (the optional prefix is tried first and given up when nothing follows it)
FilenameReAt(h, s) ==
    LET low == Lower(h)
        p   == s + Len(FilenameWord)
        e   == IF p <= Len(h) /\ h[p] = "*" THEN p + 1 ELSE p
        q   == e + 1
        q2  == IF StartsWithAt(low, q, Utf8Prefix) THEN q + Len(Utf8Prefix)
               ELSE IF q <= Len(h) /\ h[q] = "\"" THEN q + 1
               ELSE q
        withPrefix == ValueRun(h, q2)
    IN  IF StartsWithAt(low, s, FilenameWord) /\ e <= Len(h) /\ h[e] = "="
        THEN IF withPrefix # <<>> THEN withPrefix ELSE ValueRun(h, q)
        ELSE <<>>

\* FILENAME_RE.search(h).group(1): the leftmost match; <<>> stands for None
\* (a match always captures at least one character)
FilenameReSearch(h) ==
    IF \E s \in 1..Len(h) : FilenameReAt(h, s) # <<>>
    THEN FilenameReAt(h, CHOOSE s \in 1..Len(h) :
                            /\ FilenameReAt(h, s) # <<>>
                            /\ \A t \in 1..(s - 1) : FilenameReAt(h, t) = <<>>)
    ELSE <<>>

(* ------------------------------------------------------------------ *)
(* Filename resolver                                                   *)
(* ------------------------------------------------------------------ *)

\* for key in ("filename", "file", "name", "documentName", "id")
NameKeys == <<"filename", "file", "name", "documentName", "id">>

\* for key in ("id", "documentId", "docId", "mailingId", "uuid")
StemKeys == <<"id", "documentId", "docId", "mailingId", "uuid">>

\* key in qs and qs[key]
HasKey(url, key) == key \in DOMAIN url.qs /\ url.qs[key] # <<>>

\* the part of both filename functions after the query loop
FilenameFromTail(v, url, fallback_stem) ==
    LET tail == PathName(url.path)
    IN  IF tail # <<>>
        THEN Sanitize(v, Unquote(ForcePdf(tail)))
        ELSE Sanitize(v, fallback_stem \o PdfExt)

\* filename_from_url's loop: a value that is blank after strip() is passed over
RECURSIVE UrlKeyLoop(_, _, _, _)
UrlKeyLoop(v, url, fallback_stem, keys) ==
    IF keys = <<>> THEN FilenameFromTail(v, url, fallback_stem)
    ELSE LET candidate ==
                 IF HasKey(url, Head(keys))
                 THEN Strip(Unquote(url.qs[Head(keys)][1]), WhiteChars)
                 ELSE <<>>
         IN  IF candidate # <<>>
             THEN Sanitize(v, ForcePdf(candidate))
             ELSE UrlKeyLoop(v, url, fallback_stem, Tail(keys))

filename_from_url(v, url, fallback_stem) ==
    UrlKeyLoop(v, url, fallback_stem, NameKeys)

\* filename_from_headers_or_url's loop: the first key present decides
RECURSIVE HeaderKeyLoop(_, _, _, _)
HeaderKeyLoop(v, url, fallback_stem, keys) ==
    IF keys = <<>> THEN FilenameFromTail(v, url, fallback_stem)
    ELSE IF HasKey(url, Head(keys))
         THEN Sanitize(v, ForcePdf(Unquote(url.qs[Head(keys)][1])))
         ELSE HeaderKeyLoop(v, url, fallback_stem, Tail(keys))

\* the URL's query parameters preferred to the header
filename_from_url_first(v, content_disp, url, fallback_stem) ==
    LET captured  == FilenameReSearch(content_disp)
        candidate == Strip(Unquote(captured), WhiteChars)
    IN  IF (\E k \in DOMAIN NameKeys : HasKey(url, NameKeys[k]))
           \/ captured = <<>> \/ candidate = <<>>
        THEN HeaderKeyLoop(v, url, fallback_stem, NameKeys)
        ELSE Sanitize(v, ForcePdf(candidate))

\* content_disp is response.headers.get("content-disposition", "")
filename_from_headers_or_url(v, content_disp, url, fallback_stem) ==
    LET captured  == FilenameReSearch(content_disp)
        candidate == Strip(Unquote(captured), WhiteChars)
    IN  IF captured # <<>> /\ candidate # <<>>
        THEN Sanitize(v, ForcePdf(candidate))
        ELSE HeaderKeyLoop(v, url, fallback_stem, NameKeys)

FlatexPrefix == <<"f","l","a","t","e","x","_">>

RECURSIVE StemKeyLoop(_, _, _)
StemKeyLoop(v, url, keys) ==
    IF keys = <<>> THEN FlatexPrefix \o url.digest
    ELSE IF HasKey(url, Head(keys))
         THEN LET value == Sanitize(v, url.qs[Head(keys)][1])
              IN  IF v = "lib" /\ EndsWith(Lower(value), PdfExt)
                  THEN FlatexPrefix \o PathStem(value)
                  ELSE FlatexPrefix \o value
         ELSE StemKeyLoop(v, url, Tail(keys))

\* url.digest is hashlib.sha1(url).hexdigest()[:12]
build_stable_stem(v, url) == StemKeyLoop(v, url, StemKeys)

\* ALLOWED_DOWNLOAD_HOSTS
ALLOWED_DOWNLOAD_HOSTS ==
    { <<"k","o","n","t","o",".","f","l","a","t","e","x",".","a","t">>,
      <<"k","o","n","t","o",".","f","l","a","t","e","x",".","d","e">> }

\* a host check that looks for an allowed host inside the hostname
is_allowed_by_substring(url) ==
    \E h \in ALLOWED_DOWNLOAD_HOSTS : Contains(Lower(url.host), h)

\* url.host is urlparse(url).hostname or ""
is_allowed_download_url(url) == Lower(url.host) \in ALLOWED_DOWNLOAD_HOSTS

(* ------------------------------------------------------------------ *)
(* Inputs: links the row commands resolve to, responses of the server  *)
(* ------------------------------------------------------------------ *)

KontoAt == <<"k","o","n","t","o",".","f","l","a","t","e","x",".","a","t">>

KontoDeUpper == <<"K","O","N","T","O",".","F","L","A","T","E","X",".","D","E">>

EvilHost == <<"e","v","i","l",".","e","x","a","m","p","l","e">>

LookalikeHost == KontoAt \o <<".">> \o EvilHost

NoQuery == [k \in {} |-> <<>>]

\* 1  https://konto.flatex.at/downloadData/1/doc.pdf
\* 2  https://KONTO.FLATEX.DE/download?filename=My%20File%20(1).pdf
\* 3  https://konto.flatex.at/?documentId=abc-123
\* 4  https://konto.flatex.at/x/?filename=%20&id=7
\* 5  https://evil.example/downloadData/1/doc.pdf
\* 6  https://konto.flatex.at.evil.example/?id=7
Links ==
    << [host |-> KontoAt,
        path |-> <<"/","d","o","w","n","l","o","a","d","D","a","t","a","/","1","/","d","o","c",".","p","d","f">>,
        qs |-> NoQuery,
        digest |-> <<"0","a","1","b","2","c","3","d","4","e","5","f">>],
       [host |-> KontoDeUpper,
        path |-> <<"/","d","o","w","n","l","o","a","d">>,
        qs |-> ("filename" :> << <<"M","y"," ","F","i","l","e"," ","(","1",")",".","p","d","f">> >>),
        digest |-> <<"1","1","1","1","1","1","1","1","1","1","1","1">>],
       [host |-> KontoAt,
        path |-> <<"/">>,
        qs |-> ("documentId" :> << <<"a","b","c","-","1","2","3">> >>),
        digest |-> <<"2","2","2","2","2","2","2","2","2","2","2","2">>],
       [host |-> KontoAt,
        path |-> <<"/","x","/">>,
        qs |-> ("filename" :> << <<" ">> >>) @@ ("id" :> << <<"7">> >>),
        digest |-> <<"3","3","3","3","3","3","3","3","3","3","3","3">>],
       [host |-> EvilHost,
        path |-> <<"/","d","o","w","n","l","o","a","d","D","a","t","a","/","1","/","d","o","c",".","p","d","f">>,
        qs |-> NoQuery,
        digest |-> <<"4","4","4","4","4","4","4","4","4","4","4","4">>],
       [host |-> LookalikeHost,
        path |-> <<"/">>,
        qs |-> ("id" :> << <<"7">> >>),
        digest |-> <<"5","5","5","5","5","5","5","5","5","5","5","5">>] >>

LinkIds == 1..Len(Links)

PdfMagic == <<"%","P","D","F">>

\* headers and body of a response: content-type, content-disposition, bytes
\* 1  text/html page                       (no sign of a PDF)
\* 2  application/pdf, filename="foo.pdf"  (both signs)
\* 3  application/octet-stream, %PDF body  (magic bytes only)
\* 4  Application/PDF, body without magic  (content type only)
Payloads ==
    << [ctype |-> <<"t","e","x","t","/","h","t","m","l">>,
        cd    |-> <<>>,
        body  |-> <<"<","h","t","m","l",">">>],
       [ctype |-> <<"a","p","p","l","i","c","a","t","i","o","n","/","p","d","f">>,
        cd    |-> <<"a","t","t","a","c","h","m","e","n","t",";"," ",
                    "f","i","l","e","n","a","m","e","=","\"","f","o","o",".","p","d","f","\"">>,
        body  |-> <<"%","P","D","F","-","a">>],
       [ctype |-> <<"a","p","p","l","i","c","a","t","i","o","n","/","o","c","t","e","t">>,
        cd    |-> <<>>,
        body  |-> <<"%","P","D","F","-","b">>],
       [ctype |-> <<"A","p","p","l","i","c","a","t","i","o","n","/","P","D","F">>,
        cd    |-> <<>>,
        body  |-> <<"b","u","s","y">>] >>

PayloadIds == 1..Len(Payloads)

\* HTTP statuses the server answers with: both edges of the 2xx range, the
\* five retriable ones and two terminal ones
Statuses == {199, 200, 299, 300, 404, 429, 500, 502, 503, 504}

\* what one fetch_pdf_response call does: raise, or return a response
Raised == [raised |-> TRUE, status |-> 0, payload |-> 1]

FetchOutcomes ==
    {Raised} \cup
    { [raised |-> FALSE, status |-> st, payload |-> p] : st \in Statuses, p \in PayloadIds }

\* the answers tried under main(): status 200 with an HTML page or a PDF,
\* and a terminal status, a retriable one and the warm-up status, each with
\* an HTML page
MainFetchOutcomes ==
    {Raised} \cup
    { [raised |-> FALSE, status |-> 200, payload |-> p] : p \in {1, 2} } \cup
    { [raised |-> FALSE, status |-> st, payload |-> 1] : st \in {404, 429, 503} }

AnswersOf(v) == IF v = "cli" THEN MainFetchOutcomes ELSE FetchOutcomes

(* ------------------------------------------------------------------ *)
(* The output directory: file name -> file                             *)
(* ------------------------------------------------------------------ *)

\* a file: its bytes, and (history only, never read by the program) the link
\* and response payload of the save that wrote it; <<0, 0>> for a file that
\* was there before the run
NewFile(body, lid, p) == [body |-> body, by |-> <<lid, p>>]

OldFile == NewFile(<<"%","P","D","F","-","o","l","d">>, 0, 0)

EmptyDir == [n \in {} |-> OldFile]

\* Path.exists()
Exists(dir, name) == name \in DOMAIN dir

\* Path.write_bytes(): creates the file or replaces its content
WriteBytes(dir, name, file) ==
    [n \in (DOMAIN dir) \cup {name} |-> IF n = name THEN file ELSE dir[n]]

(* ------------------------------------------------------------------ *)
(* Link resolver: extract_pdf_link_from_script, normalize_command_url  *)
(* ------------------------------------------------------------------ *)

\* finished\(" and display\(": the literal text the two patterns open with
FinishedOpen ==
    <<"f","i","n","i","s","h","e","d","(","\"">>

DisplayOpen ==
    <<"d","i","s","p","l","a","y","(","\"">>

\* the two patterns tried in the opposite order
SCRIPT_PATTERNS_display_first == <<DisplayOpen, FinishedOpen>>

\* the patterns, in the order they are tried
SCRIPT_PATTERNS == <<FinishedOpen, DisplayOpen>>

\* index of the first character of s from p on that is in cs, Len(s) + 1
\* when there is none
FindAny(s, cs, p) ==
    LET hits == { i \in p..Len(s) : s[i] \in cs }
    IN  IF hits = {} THEN Len(s) + 1
        ELSE CHOOSE i \in hits : \A j \in hits : i <= j

\* how far the class [^"] matches from position p of s
NonQuoteRun(s, p) == IF p > Len(s) THEN 0 ELSE FindAny(s, {"\""}, p) - p

\* a pattern matched at position p of s: the opener, ([^"]+), then ",
\* gives group(1), <<>> when there is no match at p
PatternAt(open, s, p) ==
    LET q == p + Len(open)
        n == NonQuoteRun(s, q)
    IN  IF /\ StartsWithAt(s, p, open)
           /\ n >= 1
           /\ StartsWithAt(s, q + n, <<"\"", ",">>)
        THEN SubSeq(s, q, q + n - 1)
        ELSE <<>>

\* pattern.search(script): group(1) of the leftmost match, <<>> when the
\* pattern matches nowhere
PatternSearch(open, s) ==
    LET at == { p \in 1..Len(s) : PatternAt(open, s, p) # <<>> }
    IN  IF at = {} THEN <<>>
        ELSE PatternAt(open, s, CHOOSE p \in at : \A q \in at : p <= q)

\* str.replace(old, new)
RECURSIVE Replace(_, _, _)
Replace(s, old, new) ==
    IF s = <<>> THEN <<>>
    ELSE IF StartsWith(s, old)
         THEN new \o Replace(SubSeq(s, Len(old) + 1, Len(s)), old, new)
         ELSE <<Head(s)>> \o Replace(Tail(s), old, new)

\* the characters urlsplit accepts in a scheme
SchemeChars ==
    Range(LowerLetters) \cup Range(UpperLetters) \cup Range(DigitChars)
        \cup {"+", "-", "."}

\* urlsplit(url, scheme): scheme, netloc, path, and the rest from the first
\* "?" or "#" on
UrlSplit(url, default_scheme) ==
    LET colon  == FindAny(url, {":"}, 1)
        has    == /\ colon <= Len(url)
                  /\ colon > 1
                  /\ url[1] \in Range(LowerLetters) \cup Range(UpperLetters)
                  /\ \A i \in 1..(colon - 1) : url[i] \in SchemeChars
        scheme == IF has THEN Lower(SubSeq(url, 1, colon - 1)) ELSE default_scheme
        rest   == IF has THEN SubSeq(url, colon + 1, Len(url)) ELSE url
        net    == StartsWith(rest, <<"/", "/">>)
        stop   == IF net THEN FindAny(rest, {"/", "?", "#"}, 3) ELSE 1
        after  == SubSeq(rest, stop, Len(rest))
        cut    == FindAny(after, {"?", "#"}, 1)
    IN  [scheme |-> scheme,
         netloc |-> IF net THEN SubSeq(rest, 3, stop - 1) ELSE <<>>,
         path   |-> SubSeq(after, 1, cut - 1),
         tail   |-> SubSeq(after, cut, Len(after))]

\* urlunsplit
UrlUnsplit(scheme, netloc, path, tail) ==
    scheme \o <<":">>
        \o (IF netloc # <<>> THEN <<"/", "/">> \o netloc ELSE <<>>)
        \o (IF netloc # <<>> /\ path # <<>> /\ Head(path) # "/"
            THEN <<"/">> ELSE <<>>)
        \o path \o tail

\* path.split("/")
RECURSIVE SplitSlash(_)
SplitSlash(path) ==
    LET k == FindAny(path, {"/"}, 1)
    IN  IF k > Len(path) THEN <<path>>
        ELSE <<SubSeq(path, 1, k - 1)>> \o SplitSlash(SubSeq(path, k + 1, Len(path)))

\* "/".join(segments)
RECURSIVE JoinSlash(_)
JoinSlash(segments) ==
    IF segments = <<>> THEN <<>>
    ELSE IF Len(segments) = 1 THEN segments[1]
    ELSE segments[1] \o <<"/">> \o JoinSlash(Tail(segments))

Dot == <<".">>

DotDot == <<".", ".">>

\* urljoin's loop over the segments: ".." drops the segment before it, "."
\* is skipped
RECURSIVE ResolveDots(_, _)
ResolveDots(segments, done) ==
    IF segments = <<>> THEN done
    ELSE IF Head(segments) = DotDot
         THEN ResolveDots(Tail(segments),
                          IF done = <<>> THEN done
                          ELSE SubSeq(done, 1, Len(done) - 1))
         ELSE IF Head(segments) = Dot
         THEN ResolveDots(Tail(segments), done)
         ELSE ResolveDots(Tail(segments), Append(done, Head(segments)))

\* the path urljoin gives for a reference with a path: the base path without
\* its last segment, the reference's segments, empty middle segments
\* dropped, dot segments resolved
MergePaths(bpath, path) ==
    LET base_parts == SplitSlash(bpath)
        dir        == IF Last(base_parts) # <<>>
                      THEN SubSeq(base_parts, 1, Len(base_parts) - 1)
                      ELSE base_parts
        segments   == IF StartsWith(path, <<"/">>)
                      THEN SplitSlash(path)
                      ELSE dir \o SplitSlash(path)
        kept       == IF Len(segments) <= 2 THEN segments
                      ELSE <<Head(segments)>>
                             \o SelectSeq(SubSeq(segments, 2, Len(segments) - 1),
                                          LAMBDA g : g # <<>>)
                             \o <<Last(segments)>>
        resolved   == ResolveDots(kept, <<>>)
        closed     == IF Last(kept) \in {Dot, DotDot}
                      THEN Append(resolved, <<>>)
                      ELSE resolved
        joined     == JoinSlash(closed)
    IN  IF joined = <<>> THEN <<"/">> ELSE joined

\* urllib.parse.urljoin(base, url) for a base of scheme http or https
urljoin(base, url) ==
    LET b == UrlSplit(base, <<>>)
        u == UrlSplit(url, b.scheme)
    IN  IF base = <<>> THEN url
        ELSE IF url = <<>> THEN base
        ELSE IF u.scheme # b.scheme THEN url
        ELSE IF u.netloc # <<>>
        THEN UrlUnsplit(u.scheme, u.netloc, u.path, u.tail)
        ELSE IF u.path = <<>>
        THEN UrlUnsplit(u.scheme, b.netloc, b.path,
                        IF u.tail # <<>> /\ Head(u.tail) = "?"
                        THEN u.tail
                        ELSE SubSeq(b.tail, 1, FindAny(b.tail, {"#"}, 1) - 1)
                               \o u.tail)
        ELSE UrlUnsplit(u.scheme, b.netloc, MergePaths(b.path, u.path), u.tail)

\* url.replace("\\/", "/").replace("\\u0026", "&"), then urljoin
normalize_command_url(url, base_url) ==
    urljoin(base_url,
            Replace(Replace(url, <<"\\", "/">>, <<"/">>),
                    <<"\\", "u", "0", "0", "2", "6">>, <<"&">>))

\* the loop over SCRIPT_PATTERNS from pattern k on: the first pattern that
\* matches anywhere in the script decides; none matching raises
RECURSIVE PatternLoop(_, _, _)
PatternLoop(script, base_url, k) ==
    IF k > Len(SCRIPT_PATTERNS)
    THEN [raised |-> TRUE, url |-> <<>>]
    ELSE IF PatternSearch(SCRIPT_PATTERNS[k], script) # <<>>
    THEN [raised |-> FALSE,
          url |-> normalize_command_url(
                      PatternSearch(SCRIPT_PATTERNS[k], script), base_url)]
    ELSE PatternLoop(script, base_url, k + 1)

extract_pdf_link_from_script(script, base_url) ==
    PatternLoop(script, base_url, 1)

(* ------------------------------------------------------------------ *)
(* Download fetcher: save_pdf_from_link                                *)
(* ------------------------------------------------------------------ *)

\* The names a link and a response lead to, tabulated once per program
\* variant, link and payload (the functions above are pure)
StemOf ==
    [v \in Variants |-> [lid \in LinkIds |-> build_stable_stem(v, Links[lid])]]

OptimisticNameOf ==
    [v \in Variants |->
        [lid \in LinkIds |-> filename_from_url(v, Links[lid], StemOf[v][lid])]]

FinalNameOf ==
    [v \in Variants |->
        [lid \in LinkIds |->
            [p \in PayloadIds |->
                filename_from_headers_or_url(v, Payloads[p].cd, Links[lid],
                                             StemOf[v][lid])]]]

\* Response.ok
ResponseOk(response) == 200 <= response.status /\ response.status <= 299

\* every server error retried, 429 forgotten
RetriableStatus_5xx(status) == status >= 500

\* response.status in (429, 500, 502, 503, 504)
RetriableStatus(status) == status \in {429, 500, 502, 503, 504}

\* the negation of: "pdf" not in ctype and not body.startswith(b"%PDF")
\* the test with its second "not" dropped
PdfPayload_dropped_not(payload) ==
    \/ Contains(Lower(payload.ctype), <<"p","d","f">>)
    \/ ~StartsWith(payload.body, PdfMagic)

PdfPayload(payload) ==
    \/ Contains(Lower(payload.ctype), <<"p","d","f">>)
    \/ StartsWith(payload.body, PdfMagic)

PdfPayloadIds == { p \in PayloadIds : PdfPayload(Payloads[p]) }

IsPdf(response) == response.payload \in PdfPayloadIds

\* the while loop over i = 2, 3, ...: the first stem_i.suffix that is free
RECURSIVE FreeAlt(_, _, _)
FreeAlt(dir, name, i) ==
    LET alt == PathStem(name) \o <<"_">> \o IntToStr(i) \o PathSuffix(name)
    IN  IF ~Exists(dir, alt) THEN alt ELSE FreeAlt(dir, name, i + 1)

\* no collision loop: the resolved name is written whether taken or not
WriteTarget_overwrite(dir, name) == name

\* the path write_bytes is called on
WriteTarget(dir, name) ==
    IF Exists(dir, name) THEN FreeAlt(dir, name, 2) ELSE name

\* the value save_pdf_from_link returns, with what it did on the way:
\* events lists the GETs, warm-ups and writes in order, response is the last
\* response received, target the file written (<<>> when none)
Outcome(ok, msg, retriable, events, dir, response, target) ==
    [ok |-> ok, msg |-> msg, retriable |-> retriable, events |-> events,
     dir |-> dir, response |-> response, target |-> target]

\* a 503 answer: warm-up, then one more GET; either may raise
WarmupAndRetry(warmRaises, get2) ==
    IF warmRaises
    THEN [raised |-> TRUE, response |-> Raised, events |-> <<"GET", "WARMUP">>]
    ELSE [raised |-> get2.raised, response |-> get2,
          events |-> <<"GET", "WARMUP", "GET">>]

\* the warm-up run for every server error, not only for 503
FetchResponse_warm_on_5xx(get1, warmRaises, get2) ==
    IF get1.raised
    THEN [raised |-> TRUE, first |-> TRUE, response |-> Raised, events |-> <<"GET">>]
    ELSE IF get1.status >= 500
         THEN [first |-> FALSE] @@ WarmupAndRetry(warmRaises, get2)
         ELSE [raised |-> FALSE, first |-> FALSE, response |-> get1,
               events |-> <<"GET">>]

\* the two try blocks: the first GET and, on status 503, the warm-up with
\* its retry.  first is TRUE when the exception came from the first GET.
FetchResponse(get1, warmRaises, get2) ==
    IF get1.raised
    THEN [raised |-> TRUE, first |-> TRUE, response |-> Raised, events |-> <<"GET">>]
    ELSE IF get1.status = 503
         THEN [first |-> FALSE] @@ WarmupAndRetry(warmRaises, get2)
         ELSE [raised |-> FALSE, first |-> FALSE, response |-> get1,
               events |-> <<"GET">>]

\* the flag tested the wrong way round
FinalHit_inverted(dir, skip_existing, name) == ~skip_existing /\ Exists(dir, name)

\* skip_existing and target.exists(), after the fetch
FinalHit(dir, skip_existing, name) == skip_existing /\ Exists(dir, name)

\* the body written before the PDF check instead of after it
StoreResponse_write_unchecked(v, lid, dir, skip_existing, response, events) ==
    LET payload == Payloads[response.payload]
        name    == FinalNameOf[v][lid][response.payload]
        target  == WriteTarget(dir, name)
        written == WriteBytes(dir, target,
                              NewFile(payload.body, lid, response.payload))
    IN  IF ~ResponseOk(response)
        THEN Outcome(FALSE, "HTTP", RetriableStatus(response.status),
                     events, dir, response, <<>>)
        ELSE IF ~IsPdf(response)
        THEN Outcome(FALSE, "not a PDF", FALSE, events \o <<"WRITE">>,
                     written, response, target)
        ELSE IF FinalHit(dir, skip_existing, name)
        THEN Outcome(TRUE, "skipped existing", FALSE, events, dir, response, <<>>)
        ELSE Outcome(TRUE, "saved", FALSE, events \o <<"WRITE">>,
                     written, response, target)

\* from "if not response.ok" to the end of the function
StoreResponse(v, lid, dir, skip_existing, response, events) ==
    LET payload == Payloads[response.payload]
        name    == FinalNameOf[v][lid][response.payload]
        target  == WriteTarget(dir, name)
    IN  IF ~ResponseOk(response)
        THEN Outcome(FALSE, "HTTP", RetriableStatus(response.status),
                     events, dir, response, <<>>)
        ELSE IF ~IsPdf(response)
        THEN Outcome(FALSE, "not a PDF", FALSE, events, dir, response, <<>>)
        ELSE IF FinalHit(dir, skip_existing, name)
        THEN Outcome(TRUE, "skipped existing", FALSE, events, dir, response, <<>>)
        ELSE Outcome(TRUE, "saved", FALSE, events \o <<"WRITE">>,
                     WriteBytes(dir, target,
                                NewFile(payload.body, lid, response.payload)),
                     response, target)

\* only a failed first GET reported as retriable
RaisedOutcome_first_only(fetched, dir) ==
    Outcome(FALSE,
            IF fetched.first THEN "request failed" ELSE "503 warm-up failed",
            fetched.first, fetched.events, dir, Raised, <<>>)

\* the two except clauses: what is returned when a GET or the warm-up raised
RaisedOutcome(fetched, dir) ==
    Outcome(FALSE,
            IF fetched.first THEN "request failed" ELSE "503 warm-up failed",
            TRUE, fetched.events, dir, Raised, <<>>)

\* the host check of download.py; the script's own save_pdf_from_link has none
AllowedLinkIds == { lid \in LinkIds : is_allowed_download_url(Links[lid]) }

HostBlocked(v, lid) == v = "lib" /\ lid \notin AllowedLinkIds

\* the stem looked up in place of the file name
OptimisticHit_stem(v, lid, dir, skip_existing) ==
    /\ skip_existing
    /\ Exists(dir, StemOf[v][lid])

\* skip_existing and (output_dir / filename_from_url(link, stem)).exists()
OptimisticHit(v, lid, dir, skip_existing) ==
    /\ skip_existing
    /\ Exists(dir, OptimisticNameOf[v][lid])

save_pdf_from_link(v, lid, dir, skip_existing, get1, warmRaises, get2) ==
    LET fetched == FetchResponse(get1, warmRaises, get2)
    IN  IF HostBlocked(v, lid)
        THEN Outcome(FALSE, "blocked non-Flatex download host", FALSE,
                     <<>>, dir, Raised, <<>>)
        ELSE IF OptimisticHit(v, lid, dir, skip_existing)
        THEN Outcome(TRUE, "skipped existing", FALSE, <<>>, dir, Raised, <<>>)
        ELSE IF fetched.raised
        THEN RaisedOutcome(fetched, dir)
        ELSE StoreResponse(v, lid, dir, skip_existing,
                           fetched.response, fetched.events)

\* response.body() and target.write_bytes(body) stand outside every try
\* block of save_pdf_from_link: a call that reaches one of them may end
\* there with an exception in place of a return value
BodyReached(c) == ~c.response.raised /\ ResponseOk(c.response)

WriteReached(c) == c.target # <<>>

SaveFaults(c) ==
    {"none"} \cup (IF BodyReached(c) THEN {"body"} ELSE {})
             \cup (IF WriteReached(c) THEN {"write"} ELSE {})

\* the directory a raising call leaves: untouched, or, when write_bytes
\* raised after opening the file, with the target created and cut short
FaultDirs(c, fault) ==
    IF fault = "write"
    THEN { c.before,
           WriteBytes(c.before, c.target,
                      NewFile(<<>>, c.lid, c.response.payload)) }
    ELSE { c.before }

\* the call record of a call that raised: no return value, the events up to
\* the raising statement
Faulted(c, fault, dir) ==
    [c EXCEPT !.ok = FALSE, !.msg = "raised", !.retriable = FALSE,
              !.after = dir,
              !.events = IF fault = "body"
                         THEN SelectSeq(c.events, LAMBDA e : e # "WRITE")
                         ELSE c.events,
              !.target = IF fault = "body" THEN <<>> ELSE c.target]

(* ------------------------------------------------------------------ *)
(* State                                                               *)
(* ------------------------------------------------------------------ *)

VARIABLES
    files,      \* the output directory
    pc,         \* where the caller of save_pdf_from_link, or main, stands
    call,       \* the save_pdf_from_link call that has just returned
    calls       \* number of save_pdf_from_link calls made so far

\* main()'s arguments and locals
VARIABLES
    args_retries,        \* args.retries
    args_skip_existing,  \* args.skip_existing
    row_count,      \* rowCount of the archive state
    token_id,       \* TRUE when credentials.tokenId is not empty
    window_id,      \* TRUE when credentials.windowId is not empty
    start_row,      \* 1-based, after clamping
    end_row,        \* 1-based, after clamping
    row_index,      \* 0-based index of the row in progress
    attempt,        \* the attempt in progress, 1..args.retries
    link,           \* link resolved last for this row (0 stands for "")
    last_link,      \* link passed to save last for this row (0 stands for "")
    error,          \* TRUE once a resolution of this row raised
    row_ok,         \* TRUE once a save of this row succeeded
    row_msg,        \* message of the last save of this row
    success,        \* rows counted as downloaded
    failed,         \* rows counted as failed
    total,          \* end_row - start_row + 1
    sleeping,       \* seconds of the time.sleep in progress, 0 when none
    printed,        \* the line printed for the last finished row
    exit_code       \* the exit status of the process, -1 while it runs

\* history of the run, never read by the program
VARIABLES
    row_log,        \* what the row in progress has done so far, step by step
    resolved,       \* the link the row's latest successful resolution returned
    posted,         \* the 0-based row indices handed to fetch_row_command
    outcomes        \* the rows counted so far, each with its terminal state

saveVars == <<files, pc, call, calls>>

argVars ==
    <<args_retries, args_skip_existing, row_count, token_id, window_id,
      start_row, end_row, total>>

rowVars == <<row_index, attempt, link, last_link, error, row_ok, row_msg>>

sumVars == <<success, failed, printed>>

histVars == <<row_log, resolved, posted, outcomes>>

\* a function of parse_utils.py called on its own
VARIABLES
    fn_arg,         \* the argument(s) it is called with
    fn_ret          \* what it returned, <<>> before the call

pureVars == <<fn_arg, fn_ret>>

mainVars ==
    <<argVars, rowVars, sumVars, sleeping, exit_code, histVars, pureVars>>

vars == <<saveVars, mainVars>>

\* save_pdf_from_link calls made by one run of the package's caller
MaxCalls == 2

NoCall ==
    [lid |-> 0, skip |-> FALSE, before |-> EmptyDir, after |-> EmptyDir,
     get1 |-> Raised, warmRaises |-> FALSE, get2 |-> Raised,
     ok |-> FALSE, msg |-> "", retriable |-> FALSE, events |-> <<>>,
     response |-> Raised, target |-> <<>>]

\* the call record of one save_pdf_from_link call: its arguments, the
\* directory before and after, what the session answered, and what it returned
CallRecord(v, lid, dir, skip_existing, get1, warmRaises, get2) ==
    LET res == save_pdf_from_link(v, lid, dir, skip_existing, get1, warmRaises, get2)
    IN  [lid |-> lid, skip |-> skip_existing, before |-> dir, after |-> res.dir,
         get1 |-> get1, warmRaises |-> warmRaises, get2 |-> get2,
         ok |-> res.ok, msg |-> res.msg, retriable |-> res.retriable,
         events |-> res.events, response |-> res.response, target |-> res.target]

\* the answers the session has to give during one call: none when the call
\* returns before its first GET, a second one only after a 503 and a
\* warm-up that returned
FirstAnswers(v, lid, dir, skip_existing) ==
    IF HostBlocked(v, lid) \/ OptimisticHit(v, lid, dir, skip_existing)
    THEN {Raised}
    ELSE AnswersOf(v)

WarmupAnswers(get1) ==
    IF ~get1.raised /\ get1.status = 503 THEN BOOLEAN ELSE {FALSE}

SecondAnswers(v, get1, warmRaises) ==
    IF ~get1.raised /\ get1.status = 503 /\ ~warmRaises
    THEN AnswersOf(v)
    ELSE {Raised}

FooPdf == <<"f","o","o",".","p","d","f">>

Foo2Pdf == <<"f","o","o","_","2",".","p","d","f">>

DocPdf == <<"d","o","c",".","p","d","f">>

\* output directories a run may start with
InitDirs ==
    { EmptyDir,
      (FooPdf :> OldFile),
      (FooPdf :> OldFile) @@ (Foo2Pdf :> OldFile) @@ (DocPdf :> OldFile) }

NoLine == [row_no |-> 0, kind |-> "", url |-> 0]

\* main() has not read the archive state yet
LocalsUnset ==
    /\ row_count = 0
    /\ token_id = FALSE
    /\ window_id = FALSE
    /\ start_row = 0
    /\ end_row = 0
    /\ total = 0
    /\ row_index = 0
    /\ attempt = 0
    /\ link = 0
    /\ last_link = 0
    /\ error = FALSE
    /\ row_ok = FALSE
    /\ row_msg = ""
    /\ success = 0
    /\ failed = 0
    /\ sleeping = 0
    /\ printed = NoLine
    /\ exit_code = -1
    /\ row_log = <<>>
    /\ resolved = 0
    /\ posted = {}
    /\ outcomes = <<>>

\* save_pdf_from_link called on its own, main() not running
MainIdle ==
    /\ args_retries = 0
    /\ args_skip_existing = FALSE
    /\ LocalsUnset

\* no function of parse_utils.py called on its own
PureIdle ==
    /\ fn_arg = <<>>
    /\ fn_ret = <<>>

Init ==
    /\ files \in InitDirs
    /\ pc = "idle"
    /\ call = NoCall
    /\ calls = 0
    /\ MainIdle
    /\ PureIdle

\* one call of download.save_pdf_from_link, from entry to return
SaveCall ==
    /\ pc = "idle"
    /\ calls < MaxCalls
    /\ \E lid \in LinkIds, skip_existing \in BOOLEAN :
         \E get1 \in FirstAnswers("lib", lid, files, skip_existing) :
           \E warmRaises \in WarmupAnswers(get1) :
             \E get2 \in SecondAnswers("lib", get1, warmRaises) :
               /\ call' = CallRecord("lib", lid, files, skip_existing,
                                     get1, warmRaises, get2)
               /\ files' = call'.after
    /\ pc' = "returned"
    /\ calls' = calls + 1
    /\ UNCHANGED mainVars

\* the caller has taken the result; it may call again
SaveDone ==
    /\ pc = "returned"
    /\ pc' = "idle"
    /\ call' = NoCall
    /\ UNCHANGED <<files, calls, mainVars>>

Next == SaveCall \/ SaveDone

Spec == Init /\ [][Next]_vars

(* ------------------------------------------------------------------ *)
(* Row orchestrator: main() of flatex_pdf_downloader.py                *)
(* ------------------------------------------------------------------ *)

\* rows of the archive page
MaxRows == 2

\* largest --retries value
MaxRetries == 3

\* values of --start-row and --end-row: negative, zero, in range, past the end
ArgRows == (0 - 1)..(MaxRows + 1)

\* what fetch_row_command gives for one row: page.evaluate raises, or returns
\* a payload.  script is 0 when the execute script matches neither pattern,
\* else the link its captured URL normalises to
GoodCommand(lid) ==
    [raises |-> FALSE, ok |-> TRUE, json |-> "dict", commands |-> "list",
     execute |-> TRUE, script |-> lid]

\* links the rows of the archive resolve to: one of the archive's own host
\* and one of a foreign host
RowLinkIds == {1, 5}

CommandAnswers ==
    { GoodCommand(lid) : lid \in {0} \cup RowLinkIds }
    \cup { [GoodCommand(1) EXCEPT !.raises = TRUE],
           [GoodCommand(1) EXCEPT !.ok = FALSE],
           [GoodCommand(1) EXCEPT !.json = "none"],
           [GoodCommand(1) EXCEPT !.commands = "none"],
           [GoodCommand(1) EXCEPT !.execute = FALSE] }

\* get_row_pdf_link: the link, or 0 when it raises
get_row_pdf_link(payload) ==
    IF payload.raises THEN 0
    ELSE IF ~payload.ok THEN 0
    ELSE IF payload.json # "dict" THEN 0
    ELSE IF payload.commands # "list" THEN 0
    ELSE IF ~payload.execute THEN 0
    ELSE payload.script

\* one step of a row: a link resolution ("resolve", ok unless it raised), a
\* save call that returned ("save") or raised ("save_raised"), a backoff
\* sleep ("sleep", secs seconds)
Step(op, k, ok, retriable, secs) ==
    [op |-> op, attempt |-> k, ok |-> ok, retriable |-> retriable,
     secs |-> secs]

Max(a, b) == IF a >= b THEN a ELSE b

Min(a, b) == IF a <= b THEN a ELSE b

\* start_row = max(1, args.start_row)
ClampStart(arg_start) == Max(1, arg_start)

\* end_row = row_count if args.end_row <= 0 else min(args.end_row, row_count)
ClampEnd(arg_end, rc) == IF arg_end <= 0 THEN rc ELSE Min(arg_end, rc)

\* if row_count <= 0 ... if not token_id or not window_id: return 1
FatalState(rc, tok, win) == rc <= 0 \/ ~tok \/ ~win

\* the range test off by one: an empty range start_row = end_row + 1 passes
InvalidRange_off_by_one(first, last) == first > last + 1

\* if start_row > end_row: return 1
InvalidRange(first, last) == first > last

\* a successful save no longer leaves the attempt loop
AfterSave_no_break(ok, retriable, k, retries) ==
    IF (ok \/ retriable) /\ k < retries
    THEN [pc |-> "sleep", secs |-> 2 * k]
    ELSE [pc |-> "row_end", secs |-> 0]

\* every failed save retried while attempts remain, retriable or not
AfterSave_retry_all(ok, retriable, k, retries) ==
    IF ok THEN [pc |-> "row_end", secs |-> 0]
    ELSE IF k < retries
         THEN [pc |-> "sleep", secs |-> 2 * k]
         ELSE [pc |-> "row_end", secs |-> 0]

\* the backoff after a retriable failure fixed at 2 seconds
AfterSave_fixed_backoff(ok, retriable, k, retries) ==
    IF ok THEN [pc |-> "row_end", secs |-> 0]
    ELSE IF retriable /\ k < retries
         THEN [pc |-> "sleep", secs |-> 2]
         ELSE [pc |-> "row_end", secs |-> 0]

\* where attempt k goes once save_pdf_from_link has returned: break on
\* success, sleep 2 * k and continue on a retriable failure with attempts
\* left, break otherwise
AfterSave(ok, retriable, k, retries) ==
    IF ok THEN [pc |-> "row_end", secs |-> 0]
    ELSE IF retriable /\ k < retries
         THEN [pc |-> "sleep", secs |-> 2 * k]
         ELSE [pc |-> "row_end", secs |-> 0]

\* the failure line without its URL
ReportedUrl_none(resolved_link, passed_link) == 0

\* the URL of a failed row's line: last_link or link
ReportedUrl(resolved_link, passed_link) ==
    IF passed_link # 0 THEN passed_link ELSE resolved_link

MainInit ==
    /\ files \in {EmptyDir, (DocPdf :> OldFile)}
    /\ pc = "start"
    /\ call = NoCall
    /\ calls = 0
    /\ args_retries \in 0..MaxRetries
    /\ args_skip_existing \in BOOLEAN
    /\ LocalsUnset
    /\ PureIdle

\* from get_archive_state to the line before the row loop: the three fatal
\* checks return 1, otherwise the counters are set up
Setup ==
    /\ pc = "start"
    /\ \E rc \in 0..MaxRows, tok \in BOOLEAN, win \in BOOLEAN,
          arg_start \in ArgRows, arg_end \in ArgRows :
         /\ row_count' = rc
         /\ token_id' = tok
         /\ window_id' = win
         /\ IF FatalState(rc, tok, win)
            THEN /\ pc' = "exit"
                 /\ exit_code' = 1
                 /\ UNCHANGED <<start_row, end_row, total, row_index>>
            ELSE /\ start_row' = ClampStart(arg_start)
                 /\ end_row' = ClampEnd(arg_end, rc)
                 /\ IF InvalidRange(start_row', end_row')
                    THEN /\ pc' = "exit"
                         /\ exit_code' = 1
                         /\ UNCHANGED <<total, row_index>>
                    ELSE /\ pc' = "row"
                         /\ total' = end_row' - start_row' + 1
                         /\ row_index' = start_row' - 1
                         /\ UNCHANGED exit_code
    /\ UNCHANGED <<files, call, calls, args_retries, args_skip_existing,
                   attempt, link, last_link, error, row_ok, row_msg,
                   success, failed, printed, sleeping, histVars,
                   pureVars>>

\* for row_index in range(start_row - 1, end_row): the next row's locals
RowBegin ==
    /\ pc = "row"
    /\ row_index < end_row
    /\ link' = 0
    /\ error' = FALSE
    /\ row_ok' = FALSE
    /\ row_msg' = ""
    /\ last_link' = 0
    /\ attempt' = 1
    /\ pc' = IF 1 <= args_retries THEN "resolve" ELSE "row_end"
    /\ row_log' = <<>>
    /\ resolved' = 0
    /\ UNCHANGED <<files, call, calls, argVars, row_index, sumVars, sleeping,
                   exit_code, posted, outcomes,
                   pureVars>>

\* the try block of one attempt: get_row_pdf_link and its except clause
Resolve ==
    /\ pc = "resolve"
    /\ \E payload \in CommandAnswers :
         LET fresh == get_row_pdf_link(payload)
         IN  IF fresh = 0
             THEN /\ error' = TRUE
                  /\ IF attempt < args_retries
                     THEN sleeping' = 2 /\ pc' = "sleep"
                     ELSE sleeping' = 0 /\ pc' = "row_end"
                  /\ row_log' =
                       row_log
                         \o <<Step("resolve", attempt, FALSE, FALSE, 0)>>
                         \o (IF attempt < args_retries
                             THEN <<Step("sleep", attempt, FALSE, FALSE, 2)>>
                             ELSE <<>>)
                  /\ UNCHANGED <<link, last_link, resolved>>
             ELSE /\ resolved' = fresh
                  /\ link' = fresh
                  /\ last_link' = fresh
                  /\ pc' = "save"
                  /\ row_log' =
                       Append(row_log,
                              Step("resolve", attempt, TRUE, FALSE, 0))
                  /\ UNCHANGED <<error, sleeping>>
    /\ posted' = posted \cup {row_index}
    /\ UNCHANGED <<files, call, calls, argVars, row_index, attempt, row_ok,
                   row_msg, sumVars, exit_code, outcomes,
                   pureVars>>

\* the script's save_pdf_from_link call of one attempt and the branch on
\* its result; an exception leaving the call is caught nowhere in main() and
\* ends the process with a traceback and exit status 1
SaveAttempt ==
    /\ pc = "save"
    /\ \E get1 \in FirstAnswers("cli", link, files, args_skip_existing) :
         \E warmRaises \in WarmupAnswers(get1) :
           \E get2 \in SecondAnswers("cli", get1, warmRaises) :
             \E c \in {CallRecord("cli", link, files, args_skip_existing,
                                 get1, warmRaises, get2)} :
                 \E fault \in SaveFaults(c) :
                   IF fault = "none"
                   THEN /\ call' = c
                        /\ files' = c.after
                        /\ row_msg' = c.msg
                        /\ UNCHANGED exit_code
                        /\ row_ok' = (row_ok \/ c.ok)
                        /\ LET then == AfterSave(c.ok, c.retriable, attempt,
                                                 args_retries)
                           IN  /\ pc' = then.pc
                               /\ sleeping' = then.secs
                               /\ row_log' =
                                    row_log
                                      \o <<Step("save", attempt, c.ok,
                                                c.retriable, 0)>>
                                      \o (IF then.pc = "sleep"
                                          THEN <<Step("sleep", attempt, FALSE,
                                                      FALSE, then.secs)>>
                                          ELSE <<>>)
                   ELSE /\ \E dir \in FaultDirs(c, fault) :
                             /\ call' = Faulted(c, fault, dir)
                             /\ files' = dir
                        /\ pc' = "crashed"
                        /\ exit_code' = 1
                        /\ row_log' =
                             Append(row_log,
                                    Step("save_raised", attempt, FALSE, FALSE,
                                         0))
                        /\ UNCHANGED <<row_ok, row_msg, sleeping>>
    /\ calls' = calls + 1
    /\ UNCHANGED <<argVars, row_index, attempt, link, last_link, error,
                   sumVars, resolved, posted, outcomes,
                   pureVars>>

\* the row's link kept across attempts: once one is resolved, later
\* attempts save it without resolving again
Wake_cached_link ==
    /\ pc = "sleep"
    /\ sleeping' = 0
    /\ attempt' = attempt + 1
    /\ pc' = IF link # 0 THEN "save" ELSE "resolve"
    /\ call' = NoCall
    /\ UNCHANGED <<files, calls, argVars, row_index, link, last_link,
                   error, row_ok, row_msg, sumVars, exit_code, histVars,
                   pureVars>>

\* time.sleep returns; continue with the next attempt
Wake ==
    /\ pc = "sleep"
    /\ sleeping' = 0
    /\ attempt' = attempt + 1
    /\ pc' = "resolve"
    /\ call' = NoCall
    /\ UNCHANGED <<files, calls, argVars, row_index, link, last_link,
                   error, row_ok, row_msg, sumVars, exit_code, histVars,
                   pureVars>>

\* a row whose link was never resolved left out of the failed counter
RowEnd_unresolved_uncounted ==
    /\ pc = "row_end"
    /\ IF link = 0
       THEN /\ printed' = [row_no |-> row_index + 1, kind |-> "FAIL: could not resolve PDF link", url |-> 0]
            /\ UNCHANGED <<success, failed>>
       ELSE IF row_ok
       THEN /\ success' = success + 1
            /\ printed' = [row_no |-> row_index + 1, kind |-> "OK", url |-> 0]
            /\ UNCHANGED failed
       ELSE /\ failed' = failed + 1
            /\ printed' = [row_no |-> row_index + 1, kind |-> "FAIL",
                           url |-> ReportedUrl(link, last_link)]
            /\ UNCHANGED success
    /\ outcomes' =
         Append(outcomes,
                [row_no |-> row_index + 1,
                 state  |-> IF link # 0 /\ row_ok THEN "SUCCESS" ELSE "FAILED"])
    /\ row_index' = row_index + 1
    /\ pc' = "row"
    /\ call' = NoCall
    /\ UNCHANGED <<files, calls, argVars, attempt, link, last_link,
                   error, row_ok, row_msg, sleeping, exit_code, row_log,
                   resolved, posted,
                   pureVars>>

\* after the attempt loop: count the row and print its line
RowEnd ==
    /\ pc = "row_end"
    /\ IF link = 0
       THEN /\ failed' = failed + 1
            /\ printed' = [row_no |-> row_index + 1, kind |-> "FAIL: could not resolve PDF link", url |-> 0]
            /\ UNCHANGED success
       ELSE IF row_ok
       THEN /\ success' = success + 1
            /\ printed' = [row_no |-> row_index + 1, kind |-> "OK", url |-> 0]
            /\ UNCHANGED failed
       ELSE /\ failed' = failed + 1
            /\ printed' = [row_no |-> row_index + 1, kind |-> "FAIL",
                           url |-> ReportedUrl(link, last_link)]
            /\ UNCHANGED success
    /\ outcomes' =
         Append(outcomes,
                [row_no |-> row_index + 1,
                 state  |-> IF link # 0 /\ row_ok THEN "SUCCESS" ELSE "FAILED"])
    /\ row_index' = row_index + 1
    /\ pc' = "row"
    /\ call' = NoCall
    /\ UNCHANGED <<files, calls, argVars, attempt, link, last_link,
                   error, row_ok, row_msg, sleeping, exit_code, row_log,
                   resolved, posted,
                   pureVars>>

\* the loop is over: print the totals, close the context, return 0
Finish ==
    /\ pc = "row"
    /\ row_index >= end_row
    /\ pc' = "exit"
    /\ exit_code' = 0
    /\ UNCHANGED <<files, call, calls, argVars, rowVars, sumVars, sleeping,
                   histVars,
                   pureVars>>

MainNext ==
    Setup \/ RowBegin \/ Resolve \/ SaveAttempt \/ Wake \/ RowEnd \/ Finish

MainSpec == MainInit /\ [][MainNext]_vars

(* ------------------------------------------------------------------ *)
(* parse_utils functions called on their own                           *)
(* ------------------------------------------------------------------ *)

\* the scripts of the three extraction tests
SegFinished ==
    <<"f","o","o"," ","f","i","n","i","s","h","e","d","(","\"","/","d","o",
      "w","n","l","o","a","d","D","a","t","a","/","1","2","3","/","f","i",
      "l","e",".","p","d","f","\"",","," ","\"","x","\"",")"," ","b","a","r">>

SegDisplayEscaped ==
    <<"d","i","s","p","l","a","y","(","\"","\\","/","d","o","w","n","l","o",
      "a","d","D","a","t","a","\\","/","1","2","3","\\","/","f","i","l","e",
      ".","p","d","f","?","x","=","1","\\","u","0","0","2","6","y","=","2",
      "\"",","," ","\"","x","\"",")">>

SegNope ==
    <<"n","o","p","e">>

\* an absolute URL of another scheme and host
SegDisplayAbsolute ==
    <<"d","i","s","p","l","a","y","(","\"","h","t","t","p",":","/","/","e",
      "v","i","l",".","e","x","a","m","p","l","e","/","e",".","p","d","f",
      "\"",",">>

\* a relative reference with an escaped ampersand
SegFinishedRelative ==
    <<"f","i","n","i","s","h","e","d","(","\"","f",".","p","d","f","?","a",
      "=","1","\\","u","0","0","2","6","b","=","2","\"",",","1",")">>

\* an empty capture: [^"]+ needs one character
SegFinishedEmpty ==
    <<"f","i","n","i","s","h","e","d","(","\"","\"",",">>

\* a call cut after the closing quote; the comma may follow in the next part
SegFinishedOpenEnd ==
    <<"x","f","i","n","i","s","h","e","d","(","\"","/","g","\"">>

\* the rest of such a call
SegComma ==
    <<","," ","\"","y","\"",")">>

\* a network-path reference, slashes escaped
SegDisplayNetPath ==
    <<"d","i","s","p","l","a","y","(","\"","\\","/","\\","/","c","d","n",
      ".","e","x","a","m","p","l","e","\\","/","h",".","p","d","f","\"",",">>

\* single quotes: no pattern matches them
SegDisplaySingle ==
    <<"d","i","s","p","l","a","y","(","'","/","q","'",",">>

Segments ==
    { SegFinished, SegDisplayEscaped, SegNope,
      SegDisplayAbsolute, SegFinishedRelative, SegFinishedEmpty,
      SegFinishedOpenEnd, SegComma, SegDisplayNetPath,
      SegDisplaySingle }

\* parts a script is put together from
MaxSegments == 2

RECURSIVE ScriptsOf(_)
ScriptsOf(n) ==
    IF n = 0 THEN { <<>> }
    ELSE LET shorter == ScriptsOf(n - 1)
         IN  shorter \cup { s \o g : s \in shorter, g \in Segments }

Scripts == ScriptsOf(MaxSegments)

\* state["pageUrl"]: the bases of the tests, and one with a deeper path and
\* a query
BaseUrls ==
    { <<"h","t","t","p","s",":","/","/","k","o","n","t","o",".","f","l","a",
        "t","e","x",".","a","t","/","a","r","c","h","i","v","e">>,
      <<"h","t","t","p","s",":","/","/","k","o","n","t","o",".","f","l","a",
        "t","e","x",".","a","t","/">>,
      <<"h","t","t","p","s",":","/","/","k","o","n","t","o",".","f","l","a",
        "t","e","x",".","d","e","/","b","a","n","k","i","n","g","/","a","r",
        "c","h","i","v","e","?","t","a","b","=","1">> }

ExtractInit ==
    /\ files = EmptyDir
    /\ pc = "extract"
    /\ call = NoCall
    /\ calls = 0
    /\ MainIdle
    /\ fn_arg \in [script : Scripts, base_url : BaseUrls]
    /\ fn_ret = <<>>

\* one call of extract_pdf_link_from_script
ExtractCall ==
    /\ pc = "extract"
    /\ fn_ret' = extract_pdf_link_from_script(fn_arg.script, fn_arg.base_url)
    /\ pc' = "extracted"
    /\ UNCHANGED <<files, call, calls, argVars, rowVars, sumVars, sleeping,
                   exit_code, histVars, fn_arg>>

ExtractSpec == ExtractInit /\ [][ExtractCall]_vars

\* characters of the names sanitize_filename is given: a letter, the three
\* other characters of the class, white space and a character outside it
NameChars == {"a", ".", "_", "-", " ", "/"}

\* longest name
MaxNameLen == 5

Names == UNION { [1..n -> NameChars] : n \in 0..MaxNameLen }

SanitizeInit ==
    /\ files = EmptyDir
    /\ pc = "sanitize"
    /\ call = NoCall
    /\ calls = 0
    /\ MainIdle
    /\ fn_arg \in Names
    /\ fn_ret = <<>>

\* sanitize_filename(name)
SanitizeCall ==
    /\ pc = "sanitize"
    /\ fn_ret' = <<sanitize_filename(fn_arg)>>
    /\ pc' = "sanitized"
    /\ UNCHANGED <<files, call, calls, argVars, rowVars, sumVars, sleeping,
                   exit_code, histVars, fn_arg>>

\* sanitize_filename called on its own result
SanitizeAgain ==
    /\ pc = "sanitized"
    /\ fn_ret' = Append(fn_ret, sanitize_filename(fn_ret[1]))
    /\ pc' = "resanitized"
    /\ UNCHANGED <<files, call, calls, argVars, rowVars, sumVars, sleeping,
                   exit_code, histVars, fn_arg>>

SanitizeSpec == SanitizeInit /\ [][SanitizeCall \/ SanitizeAgain]_vars

(* ------------------------------------------------------------------ *)
(* filename_from_headers_or_url called on its own                      *)
(* ------------------------------------------------------------------ *)

\* values of the Content-Disposition header
\* 1     (no Content-Disposition header)
\* 2  attachment; filename="foo.pdf"
\* 3  attachment; filename*=UTF-8''My%20Report
\* 4  inline; filename=REPORT.PDF
\* 5  attachment; filename=" "   (a match whose candidate is blank)
\* 6  attachment   (no filename directive)
\* 7  attachment; filename=""   (nothing for the pattern to capture)
\* 8  attachment; FILENAME=.pdf; size=1
ContentDispositions ==
    { <<>>,
      <<"a","t","t","a","c","h","m","e","n","t",";"," ","f","i","l","e","n","a","m","e","=","\"","f","o","o",".","p","d","f","\"">>,
      <<"a","t","t","a","c","h","m","e","n","t",";"," ","f","i","l","e","n","a","m","e","*","=","U","T","F","-","8","'","'","M","y","%","2","0","R","e","p","o","r","t">>,
      <<"i","n","l","i","n","e",";"," ","f","i","l","e","n","a","m","e","=","R","E","P","O","R","T",".","P","D","F">>,
      <<"a","t","t","a","c","h","m","e","n","t",";"," ","f","i","l","e","n","a","m","e","=","\""," ","\"">>,
      <<"a","t","t","a","c","h","m","e","n","t">>,
      <<"a","t","t","a","c","h","m","e","n","t",";"," ","f","i","l","e","n","a","m","e","=","\"","\"">>,
      <<"a","t","t","a","c","h","m","e","n","t",";"," ","F","I","L","E","N","A","M","E","=",".","p","d","f",";"," ","s","i","z","e","=","1">> }

\* the links of the archive and four more URLs
\* 7  https://konto.flatex.at/d/scan?file=x&name=y
\* 8  https://konto.flatex.at/d/Scan.PDF
\* 9  https://konto.flatex.at/
\* 10  https://konto.flatex.at/d/b%20c/?uuid=9
NameUrls ==
    Links \o
    << [host |-> <<"k","o","n","t","o",".","f","l","a","t","e","x",".","a","t">>,
        path |-> <<"/","d","/","s","c","a","n">>,
        qs |-> ("file" :> << <<"x">> >>) @@ ("name" :> << <<"y">> >>),
        digest |-> <<"f","c","a","c","e","4","f","a","0","c","b","8">>],
       [host |-> <<"k","o","n","t","o",".","f","l","a","t","e","x",".","a","t">>,
        path |-> <<"/","d","/","S","c","a","n",".","P","D","F">>,
        qs |-> NoQuery,
        digest |-> <<"e","7","f","1","5","5","b","5","5","6","c","a">>],
       [host |-> <<"k","o","n","t","o",".","f","l","a","t","e","x",".","a","t">>,
        path |-> <<"/">>,
        qs |-> NoQuery,
        digest |-> <<"7","a","4","2","6","9","b","e","2","c","3","a">>],
       [host |-> <<"k","o","n","t","o",".","f","l","a","t","e","x",".","a","t">>,
        path |-> <<"/","d","/","b","%","2","0","c","/">>,
        qs |-> ("uuid" :> << <<"9">> >>),
        digest |-> <<"b","4","a","6","a","5","8","4","d","e","1","8">>] >>

\* fallback stems: the stable stem of the URL, as save_pdf_from_link passes
\* it, and a stem of the caller's own
FallbackStems(url) == {build_stable_stem("lib", url), <<"r", "o", "w", "_", "1">>}

NameInit ==
    /\ files = EmptyDir
    /\ pc = "name"
    /\ call = NoCall
    /\ calls = 0
    /\ MainIdle
    /\ \E cd \in ContentDispositions, u \in DOMAIN NameUrls :
         \E stem \in FallbackStems(NameUrls[u]) :
           fn_arg = [content_disp |-> cd, url |-> NameUrls[u],
                     fallback_stem |-> stem]
    /\ fn_ret = <<>>

\* filename_from_headers_or_url(response, url, fallback_stem)
NameCall ==
    /\ pc = "name"
    /\ fn_ret' = filename_from_headers_or_url("lib", fn_arg.content_disp,
                                               fn_arg.url, fn_arg.fallback_stem)
    /\ pc' = "named"
    /\ UNCHANGED <<files, call, calls, argVars, rowVars, sumVars, sleeping,
                   exit_code, histVars, fn_arg>>

NameSpec == NameInit /\ [][NameCall]_vars

(* ------------------------------------------------------------------ *)
(* One save_pdf_from_link call of either program, raising or returning *)
(* ------------------------------------------------------------------ *)

\* the answers the session gives during the call: for either program every
\* status with every payload
OnceFirstAnswers(v, lid, dir, skip_existing) ==
    IF HostBlocked(v, lid) \/ OptimisticHit(v, lid, dir, skip_existing)
    THEN {Raised}
    ELSE FetchOutcomes

OnceSecondAnswers(get1, warmRaises) ==
    IF ~get1.raised /\ get1.status = 503 /\ ~warmRaises
    THEN FetchOutcomes
    ELSE {Raised}

SaveOnceInit ==
    /\ files \in InitDirs
    /\ pc = "call"
    /\ call = NoCall
    /\ calls = 0
    /\ MainIdle
    /\ PureIdle

\* one call of download.save_pdf_from_link or of the script's
\* save_pdf_from_link: it returns, or response.body() or
\* target.write_bytes(body) raises and the exception leaves the function
SaveOnce ==
    /\ pc = "call"
    /\ \E v \in Variants, lid \in LinkIds, skip_existing \in BOOLEAN :
         \E get1 \in OnceFirstAnswers(v, lid, files, skip_existing) :
           \E warmRaises \in WarmupAnswers(get1) :
             \E get2 \in OnceSecondAnswers(get1, warmRaises) :
               \E c \in {CallRecord(v, lid, files, skip_existing,
                                    get1, warmRaises, get2)} :
                 \E fault \in SaveFaults(c) :
                   /\ fn_arg' = <<v>>
                   /\ IF fault = "none"
                      THEN /\ call' = c
                           /\ files' = c.after
                           /\ pc' = "returned"
                      ELSE /\ \E dir \in FaultDirs(c, fault) :
                                /\ call' = Faulted(c, fault, dir)
                                /\ files' = dir
                           /\ pc' = "raised"
    /\ calls' = calls + 1
    /\ UNCHANGED <<argVars, rowVars, sumVars, sleeping, exit_code, histVars,
                   fn_ret>>

SaveOnceSpec == SaveOnceInit /\ [][SaveOnce]_vars

(* ------------------------------------------------------------------ *)
(* What a returned call is measured by                                 *)
(* ------------------------------------------------------------------ *)

Count(events, e) == Cardinality({ i \in DOMAIN events : events[i] = e })

Gets(c) == Count(c.events, "GET")

Warmups(c) == Count(c.events, "WARMUP")

Writes(c) == Count(c.events, "WRITE")

\* GETs issued after the (first) warm-up
GetsAfterWarmup(c) ==
    Cardinality({ i \in DOMAIN c.events :
                    /\ c.events[i] = "GET"
                    /\ \E j \in 1..(i - 1) : c.events[j] = "WARMUP" })

\* every file the call found is still there with the same content
NothingChanged(c) ==
    \A n \in DOMAIN c.before : n \in DOMAIN c.after /\ c.after[n] = c.before[n]

NewFiles(c) == (DOMAIN c.after) \ (DOMAIN c.before)

Returned == pc = "returned"

HostAllowed(c) == Lower(Links[c.lid].host) \in ALLOWED_DOWNLOAD_HOSTS

FirstGetRaised(c) == Gets(c) >= 1 /\ c.get1.raised

FirstGet503(c) == Gets(c) >= 1 /\ ~c.get1.raised /\ c.get1.status = 503

WarmupRaised(c) == Warmups(c) >= 1 /\ c.warmRaises

WarmupCompleted(c) == Warmups(c) >= 1 /\ ~c.warmRaises

SecondGetRaised(c) == Gets(c) >= 2 /\ c.get2.raised

\* the call received a final response: the first one unless it was a 503,
\* else the one fetched after the warm-up
HasFinal(c) ==
    /\ Gets(c) >= 1
    /\ ~c.get1.raised
    /\ c.get1.status = 503 => (Gets(c) >= 2 /\ ~c.warmRaises /\ ~c.get2.raised)

Final(c) == IF c.get1.status = 503 THEN c.get2 ELSE c.get1

Is2xx(status) == status \in 200..299

\* content-type without "pdf" and bytes that do not start with %PDF
NotPdf(response) ==
    /\ ~Contains(Lower(Payloads[response.payload].ctype), <<"p","d","f">>)
    /\ ~StartsWith(Payloads[response.payload].body, PdfMagic)

\* stem_i.ext
AltName(name, i) == PathStem(name) \o <<"_">> \o IntToStr(i) \o PathSuffix(name)

\* the file name the response headers and the link resolve to
ResolvedName(c) == FinalNameOf["lib"][c.lid][Final(c).payload]

\* the file name the link alone resolves to
UrlName(c) == OptimisticNameOf["lib"][c.lid]

(* ------------------------------------------------------------------ *)
(* Claims                                                              *)
(* ------------------------------------------------------------------ *)

\* C1: a call with a link whose host is not in the allow-list returns
\* (success=false, retriable=false) and performs no GET, no warm-up and no
\* write, whatever skip_existing and the output directory are.
C1_BlockedHost ==
    (Returned /\ ~HostAllowed(call)) =>
        /\ ~call.ok
        /\ ~call.retriable
        /\ call.events = <<>>
        /\ call.after = call.before

\* C1 witness: a blocked link, with skip_existing set and the file its URL
\* names already in the directory
C1_Witness ==
    /\ Returned
    /\ ~HostAllowed(call)
    /\ call.skip
    /\ Exists(call.before, UrlName(call))

\* C2 as stated: the warm-up runs exactly once if the first GET returned 503
\* and never otherwise, it is followed by exactly one further GET (at most
\* two GETs and one warm-up per call), and when the warm-up completes and the
\* second GET returns a 2xx PDF response the call returns success,
\* non-retriable.
C2_AsStated ==
    Returned =>
        /\ Warmups(call) = (IF FirstGet503(call) THEN 1 ELSE 0)
        /\ Warmups(call) >= 1 => GetsAfterWarmup(call) = 1
        /\ Gets(call) <= 2
        /\ (WarmupCompleted(call) /\ HasFinal(call)
              /\ Is2xx(Final(call).status) /\ ~NotPdf(Final(call)))
             => (call.ok /\ ~call.retriable)

\* C2 amended: as stated, except that only a warm-up that completes is
\* followed by exactly one further GET; a warm-up that fails is followed by
\* none.
C2_WarmupOnce ==
    Returned =>
        /\ Warmups(call) = (IF FirstGet503(call) THEN 1 ELSE 0)
        /\ WarmupCompleted(call) => GetsAfterWarmup(call) = 1
        /\ WarmupRaised(call) => GetsAfterWarmup(call) = 0
        /\ Gets(call) <= 2
        /\ (WarmupCompleted(call) /\ HasFinal(call)
              /\ Is2xx(Final(call).status) /\ ~NotPdf(Final(call)))
             => (call.ok /\ ~call.retriable)

\* C2 witness: a 503, a warm-up that completed, and a second 503
C2_Witness ==
    /\ Returned
    /\ call.events = <<"GET", "WARMUP", "GET">>
    /\ ~call.get2.raised
    /\ call.get2.status = 503

\* C3: a failure raised by the first GET, by the warm-up or by the GET
\* retried after it makes the call return (success=false, retriable=true)
\* without writing a file; a failed first GET triggers no warm-up.
C3_RaisedIsRetriable ==
    Returned =>
        /\ (FirstGetRaised(call) \/ WarmupRaised(call) \/ SecondGetRaised(call))
             => /\ ~call.ok
                /\ call.retriable
                /\ Writes(call) = 0
                /\ call.after = call.before
        /\ FirstGetRaised(call) => Warmups(call) = 0

\* C3 witness: the GET retried after a completed warm-up raised
C3_Witness ==
    /\ Returned
    /\ WarmupCompleted(call)
    /\ SecondGetRaised(call)

\* C4: when the final response is not 2xx the call fails, retriable exactly
\* for the statuses 429, 500, 502, 503, 504, and no file is written.
C4_StatusDecidesRetry ==
    (Returned /\ HasFinal(call) /\ ~Is2xx(Final(call).status)) =>
        /\ ~call.ok
        /\ call.retriable <=> Final(call).status \in {429, 500, 502, 503, 504}
        /\ Writes(call) = 0
        /\ call.after = call.before

\* C4 witness: after the warm-up the server answers 429
C4_Witness ==
    /\ Returned
    /\ WarmupCompleted(call)
    /\ HasFinal(call)
    /\ Final(call).status = 429

\* C5 as stated: a response with neither a PDF content type nor the PDF
\* magic bytes makes the call fail non-retriably, whatever its HTTP status.
C5_AsStated ==
    (Returned /\ HasFinal(call) /\ NotPdf(Final(call))) =>
        (~call.ok /\ ~call.retriable)

\* C5 amended: such a response makes the call fail non-retriably whenever
\* its status is 2xx (for any other status the status alone decides, C4).
C5_NotPdfIsTerminal ==
    (Returned /\ HasFinal(call) /\ NotPdf(Final(call))
        /\ Is2xx(Final(call).status)) =>
        /\ ~call.ok
        /\ ~call.retriable
        /\ call.msg = "not a PDF"
        /\ call.after = call.before

\* C5 witness: a 299 answer that is not a PDF
C5_Witness ==
    /\ Returned
    /\ HasFinal(call)
    /\ NotPdf(Final(call))
    /\ Final(call).status = 299

\* C6: a call with skip_existing=false changes no file it found; a
\* successful one adds exactly one file, and when the resolved name is taken
\* that file is stem_i.ext for the smallest i >= 2 that is free.
C6_NeverOverwrite ==
    (Returned /\ ~call.skip) =>
        /\ NothingChanged(call)
        /\ call.ok => Cardinality(NewFiles(call)) = 1
        /\ (call.ok /\ Exists(call.before, ResolvedName(call))) =>
             \E i \in 2..(Cardinality(DOMAIN call.before) + 2) :
                /\ NewFiles(call) = {AltName(ResolvedName(call), i)}
                /\ \A j \in 2..(i - 1) :
                      Exists(call.before, AltName(ResolvedName(call), j))

\* C6 witness: the name and its _2 sibling are taken, the body goes to _3
C6_Witness ==
    /\ Returned
    /\ ~call.skip
    /\ call.ok
    /\ Exists(call.before, ResolvedName(call))
    /\ Exists(call.before, AltName(ResolvedName(call), 2))
    /\ NewFiles(call) = {AltName(ResolvedName(call), 3)}

\* C7 as stated: with skip_existing set and the file named by the URL alone
\* present, the call returns (success=true, retriable=false), "skipped
\* existing", with no GET, no warm-up and no write.
C7_AsStated ==
    (Returned /\ call.skip /\ Exists(call.before, UrlName(call))) =>
        /\ call.ok
        /\ ~call.retriable
        /\ call.msg = "skipped existing"
        /\ call.events = <<>>
        /\ call.after = call.before

\* C7 amended: the same for a link whose host is in the allow-list (a link
\* with any other host is rejected first, C1).
C7_OptimisticSkip ==
    (Returned /\ call.skip /\ HostAllowed(call)
        /\ Exists(call.before, UrlName(call))) =>
        /\ call.ok
        /\ ~call.retriable
        /\ call.msg = "skipped existing"
        /\ call.events = <<>>
        /\ call.after = call.before

\* C7 witness: an allowed link, skip_existing, the URL's file present
C7_Witness ==
    /\ Returned
    /\ call.skip
    /\ HostAllowed(call)
    /\ Exists(call.before, UrlName(call))
    /\ call.ok

\* C8: with skip_existing set, when after a successful fetch and PDF check
\* the name computed from the response headers is taken, the call returns
\* success ("skipped") and leaves the directory as it was; so a call with
\* skip_existing never creates a suffixed sibling and never writes to a name
\* that exists.
C8_FinalSkip ==
    (Returned /\ call.skip) =>
        /\ (HasFinal(call) /\ Is2xx(Final(call).status) /\ ~NotPdf(Final(call))
              /\ Exists(call.before, ResolvedName(call)))
             => /\ call.ok
                /\ call.msg = "skipped existing"
                /\ call.after = call.before
        /\ NothingChanged(call)
        /\ NewFiles(call) # {} => NewFiles(call) = {ResolvedName(call)}

\* C8 witness: the URL's name is free, a GET is made, and the name the
\* headers give is taken
C8_Witness ==
    /\ Returned
    /\ call.skip
    /\ Gets(call) >= 1
    /\ HasFinal(call)
    /\ Is2xx(Final(call).status)
    /\ ~NotPdf(Final(call))
    /\ Exists(call.before, ResolvedName(call))

\* a file of the directory the call found was written by an earlier
\* successful save of the same link, and the server answers this call as it
\* answered that one (same headers, again 2xx)
SavedBefore(c) ==
    \E n \in DOMAIN c.before :
        /\ c.before[n].by[1] = c.lid
        /\ Gets(c) >= 1 =>
             /\ Gets(c) = 1
             /\ ~c.get1.raised
             /\ Is2xx(c.get1.status)
             /\ c.get1.payload = c.before[n].by[2]

\* C9: with skip_existing set, saving a link that an earlier successful save
\* of the same link already wrote (same headers both times) succeeds as
\* skipped without any GET.
C9_SkipWithoutFetch ==
    (Returned /\ call.skip /\ SavedBefore(call)) =>
        /\ call.ok
        /\ call.msg = "skipped existing"
        /\ Gets(call) = 0

\* main has returned after entering the row loop
RanRows == pc = "exit" /\ total >= 1

\* C10: for every run that gets as far as processing rows, the exit code is
\* 0 if and only if no row ended FAILED, and 1 otherwise.
C10_ExitCode ==
    RanRows =>
        /\ exit_code \in {0, 1}
        /\ exit_code = 0 <=> failed = 0

(* ------------------------------------------------------------------ *)
(* The row orchestrator's claims                                       *)
(* ------------------------------------------------------------------ *)

\* the process has ended after it entered the row loop: main returned, or
\* an exception left it
RunOver == pc \in {"exit", "crashed"} /\ total >= 1

\* the rows that have an outcome recorded
RecordedRows == { outcomes[i].row_no : i \in DOMAIN outcomes }

\* C11: one row's failure never aborts the run: whatever was raised while a
\* row was processed (in link resolution, GET, warm-up, reading the response
\* body or writing the file), every row of start_row..end_row is processed
\* and has an outcome recorded by the time the run is over.
C11_EveryRowRecorded ==
    RunOver => RecordedRows = start_row..end_row

\* link resolutions and save calls of the row in hand
Resolutions == Cardinality({ i \in DOMAIN row_log : row_log[i].op = "resolve" })

SaveCalls ==
    Cardinality({ i \in DOMAIN row_log :
                    row_log[i].op \in {"save", "save_raised"} })

EverResolved ==
    \E i \in DOMAIN row_log : row_log[i].op = "resolve" /\ row_log[i].ok

OutcomesOf(row_no) == { i \in DOMAIN outcomes : outcomes[i].row_no = row_no }

\* C12: if the archive state reports rowCount <= 0, or an empty tokenId or
\* windowId, or the clamped range has start_row > end_row, the run ends with
\* a non-zero exit code and no row operation (row command POST, GET, warm-up,
\* file write) is ever performed.
C12_FatalBeforeRows ==
    (/\ pc # "start"
     /\ \/ row_count <= 0
        \/ ~token_id
        \/ ~window_id
        \/ start_row > end_row)
      => /\ pc = "exit"
         /\ exit_code >= 1
         /\ posted = {}
         /\ calls = 0
         /\ row_log = <<>>
         /\ outcomes = <<>>

\* C12 witness: rows and credentials are there, the range is empty
C12_Witness ==
    /\ pc = "exit"
    /\ row_count >= 1
    /\ token_id
    /\ window_id
    /\ start_row > end_row
    /\ exit_code = 1

\* C13: once a save attempt of a row returns success the row ends in SUCCESS
\* at once: the successful save is the row's last step, no resolution, save
\* or sleep follows it, and the row is counted once, as downloaded.
C13_SuccessEndsRow ==
    row_ok =>
        /\ pc \in {"row_end", "row", "exit"}
        /\ sleeping = 0
        /\ Last(row_log) = Step("save", attempt, TRUE, FALSE, 0)
        /\ Cardinality({ i \in DOMAIN row_log :
                           row_log[i].op = "save" /\ row_log[i].ok }) = 1
        /\ pc # "row_end" =>
             /\ Last(outcomes) = [row_no |-> row_index, state |-> "SUCCESS"]
             /\ Cardinality(OutcomesOf(row_index)) = 1
             /\ printed = [row_no |-> row_index, kind |-> "OK", url |-> 0]
             /\ success =
                  Cardinality({ i \in DOMAIN outcomes :
                                  outcomes[i].state = "SUCCESS" })

\* C13 witness: a row counted after a save that succeeded with attempts left
C13_Witness ==
    /\ row_ok
    /\ pc = "row"
    /\ attempt < args_retries
    /\ success >= 1

\* C14: every save call of a row is handed the link that the resolution of
\* the same attempt returned: each save follows a successful resolution of
\* its own attempt directly, and an attempt whose resolution raised makes no
\* save call.
C14_FreshLink ==
    /\ pc = "save" =>
         /\ Last(row_log) = Step("resolve", attempt, TRUE, FALSE, 0)
         /\ link = resolved
         /\ link # 0
    /\ call # NoCall => call.lid = resolved /\ call.lid # 0
    /\ \A i \in DOMAIN row_log :
         /\ row_log[i].op \in {"save", "save_raised"} =>
              /\ i > 1
              /\ row_log[i - 1] = Step("resolve", row_log[i].attempt, TRUE, FALSE, 0)
         /\ (row_log[i].op = "resolve" /\ ~row_log[i].ok /\ i < Len(row_log)) =>
              row_log[i + 1].op = "sleep"

\* C14 witness: the save of a second attempt, made with the link resolved in
\* that attempt
C14_Witness ==
    /\ call # NoCall
    /\ attempt = 2
    /\ Len(row_log) >= 5
    /\ row_log[Len(row_log) - 1].op = "save" \/ Last(row_log).op = "save"

\* C15: after a failed save in attempt k of a row with R retries, attempt
\* k+1 starts if and only if the outcome is retriable and k < R; a
\* non-retriable failure, or a retriable one at k = R, ends the row FAILED
\* with no further resolution or save.
C15_RetryDecision ==
    \A i \in DOMAIN row_log :
        (row_log[i].op = "save" /\ ~row_log[i].ok) =>
            LET k     == row_log[i].attempt
                again == row_log[i].retriable /\ k < args_retries
            IN  /\ again =>
                     /\ i < Len(row_log)
                     /\ row_log[i + 1].op = "sleep"
                     /\ i + 1 = Len(row_log) =>
                          \/ pc = "sleep" /\ attempt = k
                          \/ pc = "resolve" /\ attempt = k + 1
                     /\ i + 1 < Len(row_log) =>
                          /\ row_log[i + 2].op = "resolve"
                          /\ row_log[i + 2].attempt = k + 1
                /\ ~again =>
                     /\ i = Len(row_log)
                     /\ ~row_ok
                     /\ pc \in {"row_end", "row", "exit"}
                     /\ pc # "row_end" =>
                          Last(outcomes) = [row_no |-> row_index, state |-> "FAILED"]

\* C15 witness: a row that failed retriably in attempt 1, tried again, and
\* ended FAILED on a retriable failure of the last attempt
C15_Witness ==
    /\ pc = "row"
    /\ args_retries = 2
    /\ Len(row_log) = 5
    /\ row_log[2] = Step("save", 1, FALSE, TRUE, 0)
    /\ row_log[5] = Step("save", 2, FALSE, TRUE, 0)

\* the 1-based number of the row begun last
RowInHand == IF pc \in {"row", "exit"} THEN row_index ELSE row_index + 1

\* C16: for a retry count R >= 1 every row makes at least one and at most R
\* link resolutions and at most R save calls, and always reaches exactly one
\* of the terminal states SUCCESS and FAILED.
C16_RowTerminates ==
    args_retries >= 1 =>
        /\ Resolutions <= args_retries
        /\ SaveCalls <= args_retries
        /\ (pc \in {"row", "exit", "crashed"} /\ attempt >= 1) =>
             /\ Resolutions >= 1
             /\ Cardinality(OutcomesOf(RowInHand)) = 1
             /\ \A i \in OutcomesOf(RowInHand) :
                  outcomes[i].state \in {"SUCCESS", "FAILED"}

\* C17: a failed row is reported as "could not resolve PDF link", without a
\* URL, if and only if no attempt of the row resolved a link; a failed row of
\* which some attempt resolved a link is reported with the link of its most
\* recent successful resolution, also when later attempts failed to resolve.
C17_FailLine ==
    (pc \in {"row", "exit"} /\ printed # NoLine /\ printed.kind # "OK") =>
        /\ printed.row_no = row_index
        /\ printed.kind = "FAIL: could not resolve PDF link" <=> ~EverResolved
        /\ ~EverResolved => printed.url = 0
        /\ EverResolved =>
             /\ printed.kind = "FAIL"
             /\ printed.url = resolved
             /\ printed.url # 0

\* C17 witness: attempt 1 resolved a link and its save failed, attempt 2
\* failed to resolve, and the row's line carries the link of attempt 1
C17_Witness ==
    /\ pc = "row"
    /\ printed.kind = "FAIL"
    /\ printed.url # 0
    /\ EverResolved
    /\ Last(row_log) = Step("resolve", 2, FALSE, FALSE, 0)

\* C18: whatever --start-row, --end-row and rowCount are, once row iteration
\* begins 1 <= start_row <= end_row <= rowCount holds, and the 0-based
\* indices posted to the site are exactly start_row-1 .. end_row-1.
C18_RangeAndIndices ==
    total >= 1 =>
        /\ 1 <= start_row
        /\ start_row <= end_row
        /\ end_row <= row_count
        /\ posted \subseteq (start_row - 1)..(end_row - 1)
        /\ RunOver => posted = (start_row - 1)..(end_row - 1)

(* ------------------------------------------------------------------ *)
(* The link resolver's and the filename resolver's claims              *)
(* ------------------------------------------------------------------ *)

\* the places where the pattern opening with open matches in s: <<p, n>> for
\* a match that starts at p and captures n characters, none of them a quote,
\* with the quote and the comma right behind them
Matches(open, s) ==
    UNION { { <<p, n>> :
                n \in { m \in 1..Len(s) :
                          /\ \A j \in (p + Len(open))..(p + Len(open) + m - 1) :
                                j <= Len(s) /\ s[j] # "\""
                          /\ StartsWithAt(s, p + Len(open) + m, <<"\"", ",">>) } } :
            p \in { q \in 1..Len(s) : StartsWithAt(s, q, open) } }

\* where the leftmost of the matches ms starts
FirstMatch(ms) == CHOOSE m \in ms : \A o \in ms : m[1] <= o[1]

\* the text the leftmost of the matches ms captured
Captured(open, s, ms) ==
    SubSeq(s, FirstMatch(ms)[1] + Len(open),
           FirstMatch(ms)[1] + Len(open) + FirstMatch(ms)[2] - 1)

\* a captured URL with \/ read as / and & as &
Unescaped(url) ==
    Replace(Replace(url, <<"\\", "/">>, <<"/">>),
            <<"\\", "u", "0", "0", "2", "6">>, <<"&">>)

HttpsColon == <<"h", "t", "t", "p", "s", ":">>

\* scheme and host of a base URL: all before the first slash of its path
Origin(base) == SubSeq(base, 1, FindAny(base, {"/"}, 9) - 1)

\* a base URL up to the last slash of its path
BaseDir(base) ==
    LET stop == FindAny(base, {"?", "#"}, 1)
    IN  SubSeq(base, 1, RFind(SubSeq(base, 1, stop - 1), "/"))

\* a reference resolved against the base: an absolute URL stands for itself,
\* //host/path takes the scheme of the base, /path its scheme and host, any
\* other reference is joined to the directory of the base path
ResolvedAgainst(base, ref) ==
    IF Contains(SubSeq(ref, 1, IF Len(ref) < 8 THEN Len(ref) ELSE 8),
                <<":", "/", "/">>) THEN ref
    ELSE IF StartsWith(ref, <<"/", "/">>) THEN HttpsColon \o ref
    ELSE IF StartsWith(ref, <<"/">>) THEN Origin(base) \o ref
    ELSE BaseDir(base) \o ref

\* C19: extract_pdf_link_from_script returns the captured URL of the
\* finished("<url>", pattern if the script has one, else that of the
\* display("<url>", pattern, wherever the two stand in the script, with \/
\* and & replaced and the result resolved against base_url (a relative
\* reference joins the base, an absolute one overrides it); a script that
\* matches neither pattern raises.
C19_ExtractLink ==
    pc = "extracted" =>
        LET script   == fn_arg.script
            finished == Matches(FinishedOpen, script)
            display  == Matches(DisplayOpen, script)
        IN  /\ fn_ret.raised <=> (finished = {} /\ display = {})
            /\ finished # {} =>
                 fn_ret.url =
                   ResolvedAgainst(fn_arg.base_url,
                       Unescaped(Captured(FinishedOpen, script, finished)))
            /\ (finished = {} /\ display # {}) =>
                 fn_ret.url =
                   ResolvedAgainst(fn_arg.base_url,
                       Unescaped(Captured(DisplayOpen, script, display)))
            /\ ~Contains(fn_ret.url, <<"\\">>)

\* C19 witness: a display call stands before a finished call with a relative
\* reference and an escaped ampersand, and the finished call's URL is returned
C19_Witness ==
    /\ pc = "extracted"
    /\ fn_arg.script = SegDisplayEscaped \o SegFinishedRelative
    /\ ~fn_ret.raised
    /\ EndsWith(fn_ret.url, <<"/", "f", ".", "p", "d", "f", "?", "a", "=", "1",
                              "&", "b", "=", "2">>)

\* C20: sanitize_filename is idempotent, and its result is never empty, has
\* only characters of [A-Za-z0-9._-] and ends in a non-empty extension.
C20_SanitizeIdempotent ==
    /\ pc \in {"sanitized", "resanitized"} =>
         /\ fn_ret[1] # <<>>
         /\ Range(fn_ret[1]) \subseteq SafeChars
         /\ 1 < RFind(fn_ret[1], ".")
         /\ RFind(fn_ret[1], ".") < Len(fn_ret[1])
    /\ pc = "resanitized" => fn_ret[2] = fn_ret[1]

\* C20 witness: a name whose blank and slash become underscores that are
\* dropped before its extension, sanitised twice
C20_Witness ==
    /\ pc = "resanitized"
    /\ fn_arg = <<"a", " ", "/", ".", "a">>
    /\ fn_ret[1] = <<"a", ".", "a">>

\* the file name the Content-Disposition header gives, <<>> when it gives none
HeaderCandidate(content_disp) ==
    Strip(Unquote(FilenameReSearch(content_disp)), WhiteChars)

\* the positions in NameKeys of the query parameters the URL has
PresentKeys(url) == { k \in DOMAIN NameKeys : HasKey(url, NameKeys[k]) }

\* the name a candidate is turned into: .pdf added unless its lower-case form
\* ends in it, then sanitised
NamedAfter(candidate) == sanitize_filename(ForcePdf(candidate))

\* the name the sources give when taken in the order header, query
\* parameter, path tail, fallback stem
NameBySource(content_disp, url, fallback_stem) ==
    IF HeaderCandidate(content_disp) # <<>>
    THEN NamedAfter(HeaderCandidate(content_disp))
    ELSE IF PresentKeys(url) # {}
    THEN LET k == CHOOSE i \in PresentKeys(url) :
                      \A j \in PresentKeys(url) : i <= j
         IN  NamedAfter(Unquote(url.qs[NameKeys[k]][1]))
    ELSE IF PathName(url.path) # <<>>
    THEN sanitize_filename(Unquote(ForcePdf(PathName(url.path))))
    ELSE NamedAfter(fallback_stem)

\* C21 as stated: the name comes from the first source in the order
\* Content-Disposition filename, query parameter (filename, file, name,
\* documentName, id), last path segment, fallback_stem + ".pdf" that yields
\* something, and it ends in ".pdf".
C21_AsStated ==
    pc = "named" =>
        /\ fn_ret = NameBySource(fn_arg.content_disp, fn_arg.url,
                                 fn_arg.fallback_stem)
        /\ EndsWith(fn_ret, PdfExt)

\* C21 amended: the name comes from the first source in that order that
\* yields something, and its lower-case form ends in ".pdf" (a candidate
\* that ends in .PDF keeps its upper-case extension).
C21_NameSource ==
    pc = "named" =>
        /\ fn_ret = NameBySource(fn_arg.content_disp, fn_arg.url,
                                 fn_arg.fallback_stem)
        /\ EndsWith(Lower(fn_ret), PdfExt)

\* C21 witness: the header's filename directive is blank and the URL has the
\* parameters file and name, so the name is taken from file
C21_Witness ==
    /\ pc = "named"
    /\ HeaderCandidate(fn_arg.content_disp) = <<>>
    /\ FilenameReSearch(fn_arg.content_disp) # <<>>
    /\ PresentKeys(fn_arg.url) = {2, 3}
    /\ fn_ret = <<"x", ".", "p", "d", "f">>

(* ------------------------------------------------------------------ *)
(* The run as a whole: hosts fetched from, backoff, counters           *)
(* ------------------------------------------------------------------ *)

\* C22: in a run of main() no GET and no warm-up is issued for a resolved
\* link whose host is outside the allow-list; the save call made with such a
\* link fails without being retriable, and the row ends FAILED with it.
C22_OffHostNeverFetched ==
    (call # NoCall /\ call.lid \notin AllowedLinkIds) =>
        /\ Gets(call) = 0
        /\ Warmups(call) = 0
        /\ ~call.ok
        /\ ~call.retriable
        /\ pc = "row_end"
        /\ ~row_ok

\* C23: a backoff sleep is always followed by the next attempt of the same
\* row: it comes after a failed resolution in attempt k < R and lasts 2
\* seconds, or after a retriable save failure in attempt k < R and lasts
\* 2 * k seconds; both are always followed by their sleep, and nothing else
\* is (not attempt R, not a success, not a non-retriable failure).
C23_BackoffSleeps ==
    /\ \A i \in DOMAIN row_log :
         IF row_log[i].op = "sleep"
         THEN /\ i > 1
              /\ row_log[i].attempt < args_retries
              /\ row_log[i - 1].attempt = row_log[i].attempt
              /\ ~row_log[i - 1].ok
              /\ \/ /\ row_log[i - 1].op = "resolve"
                    /\ row_log[i].secs = 2
                 \/ /\ row_log[i - 1].op = "save"
                    /\ row_log[i - 1].retriable
                    /\ row_log[i].secs = 2 * row_log[i].attempt
              /\ IF i < Len(row_log)
                 THEN /\ row_log[i + 1].op = "resolve"
                      /\ row_log[i + 1].attempt = row_log[i].attempt + 1
                 ELSE \/ /\ pc = "sleep"
                         /\ attempt = row_log[i].attempt
                         /\ sleeping = row_log[i].secs
                      \/ /\ pc = "resolve"
                         /\ attempt = row_log[i].attempt + 1
         ELSE (/\ row_log[i].op \in {"resolve", "save"}
               /\ ~row_log[i].ok
               /\ row_log[i].op = "save" => row_log[i].retriable
               /\ row_log[i].attempt < args_retries)
                => /\ i < Len(row_log)
                   /\ row_log[i + 1].op = "sleep"
                   /\ row_log[i + 1].attempt = row_log[i].attempt
    /\ pc = "sleep" => (row_log # <<>> /\ Last(row_log).op = "sleep")
    /\ pc # "sleep" => sleeping = 0

\* C23 witness: with three attempts, a sleep of 2 seconds after the failed
\* resolution of attempt 1 and one of 4 seconds after the retriable save
\* failure of attempt 2
C23_Witness ==
    /\ pc = "sleep"
    /\ args_retries = 3
    /\ sleeping = 4
    /\ row_log = << Step("resolve", 1, FALSE, FALSE, 0),
                    Step("sleep", 1, FALSE, FALSE, 2),
                    Step("resolve", 2, TRUE, FALSE, 0),
                    Step("save", 2, FALSE, TRUE, 0),
                    Step("sleep", 2, FALSE, FALSE, 4) >>

\* the rows recorded with the given terminal state
Recorded(state) == { i \in DOMAIN outcomes : outcomes[i].state = state }

\* C24: rows are finished one at a time in ascending order from start_row,
\* each finished row has added one to exactly one of the counters downloaded
\* and failed, and when the row loop has completed every row of
\* start_row..end_row has done so once:
\* downloaded + failed = total = end_row - start_row + 1.
C24_CountersAddUp ==
    total >= 1 =>
        /\ \A i \in DOMAIN outcomes : outcomes[i].row_no = start_row + i - 1
        /\ Len(outcomes) = row_index - (start_row - 1)
        /\ success = Cardinality(Recorded("SUCCESS"))
        /\ failed = Cardinality(Recorded("FAILED"))
        /\ success + failed = Len(outcomes)
        /\ pc = "exit" =>
             /\ RecordedRows = start_row..end_row
             /\ success + failed = total
             /\ total = end_row - start_row + 1

\* C24 witness: a completed run over two rows, one downloaded and one failed
C24_Witness ==
    /\ pc = "exit"
    /\ total = 2
    /\ success = 1
    /\ failed = 1
    /\ outcomes[1].row_no + 1 = outcomes[2].row_no

\* the call in the record c is over, by return or by exception
CallOver == pc \in {"returned", "raised"} /\ call # NoCall

\* C25: a save_pdf_from_link call that returns success = false leaves the
\* output directory exactly as it found it; every call, however it ends,
\* creates at most one file; and the directory is written to only after a
\* final response with a 2xx status that passed the PDF check.
C25_FailureLeavesDirectory ==
    CallOver =>
        /\ (pc = "returned" /\ ~call.ok) => files = call.before
        /\ Cardinality((DOMAIN files) \ (DOMAIN call.before)) <= 1
        /\ (files # call.before \/ Writes(call) >= 1) =>
             /\ HasFinal(call)
             /\ Is2xx(Final(call).status)
             /\ ~NotPdf(Final(call))

\* C25 witness: the script's function, called on a directory with files in
\* it, got 503, warmed up, got a 2xx answer that is not a PDF, and returned
\* failure
C25_Witness ==
    /\ pc = "returned"
    /\ fn_arg = <<"cli">>
    /\ ~call.ok
    /\ call.before # EmptyDir
    /\ Warmups(call) = 1
    /\ Gets(call) = 2
    /\ Is2xx(Final(call).status)
    /\ NotPdf(Final(call))

====
